---- MODULE Spec2Model ----
(***************************************************************************)
(* Model of the extraction core of src/src/llm_extractor.py: the           *)
(* normalization pass _normalize with its helpers, the raw-output coercer  *)
(* _coerce_json and the request/retry loop of extract_fields_with_llm.     *)
(*                                                                         *)
(* A Python str is a sequence of one-character strings.  Two glyphs that   *)
(* are single characters in the source are written with an ASCII name:     *)
(* "PM" is the plus-or-minus glyph, "MU" the micro sign (U+00B5) and "GMU"  *)
(* the Greek letter mu (U+03BC).                                           *)
(***************************************************************************)
EXTENDS Integers, Sequences, FiniteSets, TLC

\* ------------------------------------------------------------------------
\* Bounds of the explored input space
\* ------------------------------------------------------------------------
\* the longest tolerance band string enumerated over BAND_CHARS
MaxBandLen == 3
\* the most pieces a generated grade, designation or source text is made of
MaxPieces == 2

\* ------------------------------------------------------------------------
\* Characters and Python str methods
\* ------------------------------------------------------------------------
UPPER == <<"A","B","C","D","E","F","G","H","I","J","K","L","M",
           "N","O","P","Q","R","S","T","U","V","W","X","Y","Z">>
LOWER == <<"a","b","c","d","e","f","g","h","i","j","k","l","m",
           "n","o","p","q","r","s","t","u","v","w","x","y","z">>
DIGITS == {"0","1","2","3","4","5","6","7","8","9"}
SPACES == {" ", "\t", "\n", "\r"}

Range(f) == {f[i] : i \in DOMAIN f}

UpperSet == Range(UPPER)
LowerSet == Range(LOWER)
AlphaSet == UpperSet \cup LowerSet
\* the lower-case letter of each upper-case letter, and back
LOWER_OF == [c \in UpperSet |-> LOWER[CHOOSE i \in DOMAIN UPPER : UPPER[i] = c]]
UPPER_OF == [c \in LowerSet |-> UPPER[CHOOSE i \in DOMAIN LOWER : LOWER[i] = c]]

IsDigit(c) == c \in DIGITS
IsSpace(c) == c \in SPACES
IsAlpha(c) == c \in AlphaSet
\* [A-Za-z0-9_]
IsAsciiWord(c) == IsAlpha(c) \/ IsDigit(c) \/ c = "_"
\* \w of the re module on a str: the micro sign and the Greek mu are letters
IsWord(c) == IsAsciiWord(c) \/ c \in {"MU", "GMU"}

LowerChar(c) == IF c \in UpperSet THEN LOWER_OF[c] ELSE c
UpperChar(c) == IF c \in LowerSet THEN UPPER_OF[c] ELSE c

\* str.lower(), str.upper()
StrLower(s) == [i \in DOMAIN s |-> LowerChar(s[i])]
StrUpper(s) == [i \in DOMAIN s |-> UpperChar(s[i])]

\* s[i:] with a 1-based index
Drop(s, i) == SubSeq(s, i, Len(s))

\* number of leading characters of s, from position i on, that lie in class cs
RECURSIVE RunLen(_, _, _)
RunLen(s, i, cs) ==
  IF i <= Len(s) /\ s[i] \in cs THEN 1 + RunLen(s, i + 1, cs) ELSE 0

RECURSIVE LStripSet(_, _)
LStripSet(s, cs) ==
  IF s # <<>> /\ Head(s) \in cs THEN LStripSet(Tail(s), cs) ELSE s
RECURSIVE RStripSet(_, _)
RStripSet(s, cs) ==
  IF s # <<>> /\ s[Len(s)] \in cs THEN RStripSet(SubSeq(s, 1, Len(s) - 1), cs) ELSE s
\* str.strip(chars)
StripSet(s, cs) == RStripSet(LStripSet(s, cs), cs)
\* str.strip()
Strip(s) == StripSet(s, SPACES)

\* str.replace(a, b) for single characters a, b
ReplaceChar(s, a, b) == [i \in DOMAIN s |-> IF s[i] = a THEN b ELSE s[i]]
\* str.replace(a, "") for a single character a
RemoveChar(s, a) == SelectSeq(s, LAMBDA c : c # a)

\* re.sub(r"\s+", " ", s)
RECURSIVE CollapseWs(_)
CollapseWs(s) ==
  IF s = <<>> THEN <<>>
  ELSE IF IsSpace(Head(s))
       THEN <<" ">> \o CollapseWs(LStripSet(s, SPACES))
       ELSE <<Head(s)>> \o CollapseWs(Tail(s))

\* the literal w occurs in s at position i; ci: ignoring case (re.I)
LitAt(s, i, w, ci) ==
  /\ i >= 1
  /\ i + Len(w) - 1 <= Len(s)
  /\ \A j \in 1..Len(w) :
       IF ci THEN LowerChar(s[i + j - 1]) = LowerChar(w[j]) ELSE s[i + j - 1] = w[j]

\* \b of the re module at the gap before position i (1..Len(s)+1)
WordBoundary(s, i) ==
  LET before == i > 1 /\ IsWord(s[i - 1])
      after == i <= Len(s) /\ IsWord(s[i])
  IN  before # after

\* plain substring test: w in s
Contains(s, w) == \E i \in 1..(Len(s) + 1) : LitAt(s, i, w, FALSE)

\* ------------------------------------------------------------------------
\* Regular expressions of the source, as the re module evaluates them
\* ------------------------------------------------------------------------

\* _DEC_COMMA.sub(r"\1.\2", s) with _DEC_COMMA = (\d+),(\d+): left to right,
\* non-overlapping; both digit runs are greedy
RECURSIVE DecCommaSub(_)
DecCommaSub(s) ==
  IF s = <<>> THEN <<>>
  ELSE LET n1 == RunLen(s, 1, DIGITS)
           n2 == IF n1 > 0 /\ n1 + 1 <= Len(s) /\ s[n1 + 1] = ","
                 THEN RunLen(s, n1 + 2, DIGITS) ELSE 0
       IN  IF n2 > 0
           THEN SubSeq(s, 1, n1) \o <<".">> \o SubSeq(s, n1 + 2, n1 + 1 + n2)
                  \o DecCommaSub(Drop(s, n1 + n2 + 2))
           ELSE <<Head(s)>> \o DecCommaSub(Tail(s))

\* _PM_VARIANTS.sub("PM", s) with _PM_VARIANTS = (PM|\+/?-)
RECURSIVE PmVariantsSub(_)
PmVariantsSub(s) ==
  IF s = <<>> THEN <<>>
  ELSE IF Head(s) = "PM" THEN <<"PM">> \o PmVariantsSub(Tail(s))
  ELSE IF LitAt(s, 1, <<"+","/","-">>, FALSE) THEN <<"PM">> \o PmVariantsSub(Drop(s, 4))
  ELSE IF LitAt(s, 1, <<"+","-">>, FALSE) THEN <<"PM">> \o PmVariantsSub(Drop(s, 3))
  ELSE <<Head(s)>> \o PmVariantsSub(Tail(s))

\* End (the position after the match, 0: no match) of lit1 \s* lit2 \s* ...
\* matched at position i ignoring case; every literal starts with a
\* non-space, so the greedy \s* takes the whole run
RECURSIVE PartsEnd(_, _, _)
PartsEnd(s, i, parts) ==
  IF ~LitAt(s, i, Head(parts), TRUE) THEN 0
  ELSE LET e == i + Len(Head(parts))
       IN  IF Len(parts) = 1 THEN e
           ELSE PartsEnd(s, e + RunLen(s, e, SPACES), Tail(parts))

\* the alternatives of _MATERIAL_FORM_WORDS, in the order of the pattern
MATERIAL_FORM_WORDS ==
  << <<  <<"s","h","e","e","t">>  >>,
     <<  <<"p","l","a","t","e">>  >>,
     <<  <<"r","o","u","n","d">>, <<"b","a","r">>  >>,
     <<  <<"s","q","u","a","r","e">>, <<"b","a","r">>  >>,
     <<  <<"f","l","a","t">>, <<"b","a","r">>  >>,
     <<  <<"t","u","b","e">>  >>,
     <<  <<"p","i","p","e">>  >> >>

\* first alternative (in order) that matches at i and ends at a \b
RECURSIVE FirstAltEnd(_, _, _)
FirstAltEnd(s, i, alts) ==
  IF alts = <<>> THEN 0
  ELSE LET e == PartsEnd(s, i, Head(alts))
       IN  IF e > 0 /\ WordBoundary(s, e) THEN e ELSE FirstAltEnd(s, i, Tail(alts))

\* \b(sheet|plate|round\s*bar|square\s*bar|flat\s*bar|tube|pipe)\b at i
FormWordEnd(s, i) ==
  IF WordBoundary(s, i) THEN FirstAltEnd(s, i, MATERIAL_FORM_WORDS) ELSE 0

\* _MATERIAL_FORM_WORDS.sub("", s)
RECURSIVE FormWordsSubFrom(_, _)
FormWordsSubFrom(s, i) ==
  IF i > Len(s) THEN <<>>
  ELSE LET e == FormWordEnd(s, i)
       IN  IF e > 0 THEN FormWordsSubFrom(s, e)
           ELSE <<s[i]>> \o FormWordsSubFrom(s, i + 1)
FormWordsSub(s) == FormWordsSubFrom(s, 1)

\* s[i .. i+n-1] are n digits
DigitsAt(s, i, n) == i + n - 1 <= Len(s) /\ \A j \in i..(i + n - 1) : IsDigit(s[j])

\* The candidate ends, in the order the backtracking matcher tries them, of
\* (304L?|316L?|A2|A4|S\s*\d{3}|1\.\d{4}|EN\s*AW-\d+|AlMg\d) at i, re.I;
\* 0 stands for an alternative that does not match
GradeEnds(s, i) ==
  LET lit(w) == IF LitAt(s, i, w, TRUE) THEN i + Len(w) ELSE 0
      optL(w) == IF LitAt(s, i, w \o <<"L">>, TRUE) THEN i + Len(w) + 1 ELSE 0
      sEnd == IF LitAt(s, i, <<"S">>, TRUE)
              THEN LET d == i + 1 + RunLen(s, i + 1, SPACES)
                   IN  IF DigitsAt(s, d, 3) THEN d + 3 ELSE 0
              ELSE 0
      oneEnd == IF LitAt(s, i, <<"1",".">>, FALSE) /\ DigitsAt(s, i + 2, 4)
                THEN i + 6 ELSE 0
      enEnd == LET a == PartsEnd(s, i, << <<"E","N">>, <<"A","W","-">> >>)
               IN  IF a > 0 /\ RunLen(s, a, DIGITS) > 0
                   THEN a + RunLen(s, a, DIGITS) ELSE 0
      almgEnd == IF LitAt(s, i, <<"A","l","M","g">>, TRUE) /\ DigitsAt(s, i + 4, 1)
                 THEN i + 5 ELSE 0
  IN  << optL(<<"3","0","4">>), lit(<<"3","0","4">>),
         optL(<<"3","1","6">>), lit(<<"3","1","6">>),
         lit(<<"A","2">>), lit(<<"A","4">>),
         sEnd, oneEnd, enEnd, almgEnd >>

RECURSIVE FirstBoundedEnd(_, _)
FirstBoundedEnd(s, ends) ==
  IF ends = <<>> THEN 0
  ELSE IF Head(ends) > 0 /\ WordBoundary(s, Head(ends)) THEN Head(ends)
  ELSE FirstBoundedEnd(s, Tail(ends))

\* \b( ...grade alternatives... )\b at i: the end of the match, or 0
GradeEndAt(s, i) ==
  IF WordBoundary(s, i) THEN FirstBoundedEnd(s, GradeEnds(s, i)) ELSE 0

\* re.search(r"\b(304L?|...|AlMg\d)\b", s, re.I): the start of the leftmost
\* match from position i on, 0 when there is none
RECURSIVE GradeStartFrom(_, _)
GradeStartFrom(s, i) ==
  IF i > Len(s) THEN 0
  ELSE IF GradeEndAt(s, i) > 0 THEN i
  ELSE GradeStartFrom(s, i + 1)
GradeMatches(s) == GradeStartFrom(s, 1) > 0
\* .group(1) of that match
GradeGroup(s) ==
  LET i == GradeStartFrom(s, 1)
  IN  SubSeq(s, i, GradeEndAt(s, i) - 1)

\* the narrative keywords of the welding-designation test, in pattern order
WELD_KEYWORDS ==
  << <<"w","e","l","d">>, <<"g","r","i","n","d">>, <<"s","m","o","o","t","h">>,
     <<"f","i","n","i","s","h">>, <<"c","o","r","n","e","r">>,
     <<"l","e","n","g","t","h">>, <<"s","t","i","t","c","h">>,
     <<"c","o","n","t","i","n","u","o","u","s">> >>

\* re.search(r"\b(weld|grind|smooth|finish|corner|length|stitch|continuous)\b", s, re.I)
WeldKeywordMatches(s) ==
  \E i \in 1..Len(s) : \E k \in DOMAIN WELD_KEYWORDS :
     /\ WordBoundary(s, i)
     /\ LitAt(s, i, WELD_KEYWORDS[k], TRUE)
     /\ WordBoundary(s, i + Len(WELD_KEYWORDS[k]))

\* [A-Za-z0-9_\-\/\.] and [A-Za-z0-9_\-\.]
IsDrawingChar(c) == IsAsciiWord(c) \/ c \in {"-", "/", "."}
IsRevisionChar(c) == IsAsciiWord(c) \/ c \in {"-", "."}

\* Start of the capture of  label \s*[:\-]?\s*(class+)  for a label that ends
\* just before e; 0: no match.  The matcher first lets [:\-]? take the
\* separator and, when the capture then finds no character, gives it back.
CaptureStart(s, e, IsCls(_)) ==
  LET p0 == e + RunLen(s, e, SPACES)
      p1 == IF p0 <= Len(s) /\ s[p0] \in {":", "-"}
            THEN p0 + 1 + RunLen(s, p0 + 1, SPACES) ELSE 0
  IN  IF p1 > 0 /\ p1 <= Len(s) /\ IsCls(s[p1]) THEN p1
      ELSE IF p0 <= Len(s) /\ IsCls(s[p0]) THEN p0
      ELSE 0

\* the capture start for the first label end (in matcher order) that has one
FirstCapture(s, ends, IsCls(_)) ==
  LET c(k) == IF ends[k] > 0 THEN CaptureStart(s, ends[k], IsCls) ELSE 0
  IN  IF c(1) > 0 THEN c(1) ELSE IF c(2) > 0 THEN c(2) ELSE c(3)

\* ends of (?:Drawing\s*number|Tekening(?:\s*nummer)?) at i, in matcher order
DrawingLabelEnds(s, i) ==
  << PartsEnd(s, i, << <<"D","r","a","w","i","n","g">>, <<"n","u","m","b","e","r">> >>),
     PartsEnd(s, i, << <<"T","e","k","e","n","i","n","g">>, <<"n","u","m","m","e","r">> >>),
     PartsEnd(s, i, << <<"T","e","k","e","n","i","n","g">> >>) >>

\* ends of (?:Rev(?:ision)?|Revisie) at i, in matcher order
RevisionLabelEnds(s, i) ==
  << PartsEnd(s, i, << <<"R","e","v","i","s","i","o","n">> >>),
     PartsEnd(s, i, << <<"R","e","v">> >>),
     PartsEnd(s, i, << <<"R","e","v","i","s","i","e">> >>) >>

\* the capture start of the leftmost match from position i on, 0: no match
RECURSIVE DrawingCaptureFrom(_, _)
DrawingCaptureFrom(s, i) ==
  IF i > Len(s) THEN 0
  ELSE LET p == FirstCapture(s, DrawingLabelEnds(s, i), IsDrawingChar)
       IN  IF p > 0 THEN p ELSE DrawingCaptureFrom(s, i + 1)
RECURSIVE RevisionCaptureFrom(_, _)
RevisionCaptureFrom(s, i) ==
  IF i > Len(s) THEN 0
  ELSE LET p == FirstCapture(s, RevisionLabelEnds(s, i), IsRevisionChar)
       IN  IF p > 0 THEN p ELSE RevisionCaptureFrom(s, i + 1)

\* re.search(pattern, s, re.I) for the two label patterns: [found, group]
\* with group = .group(1), the greedy run of class characters
DrawingNumberSearch(s) ==
  LET p == DrawingCaptureFrom(s, 1)
  IN  IF p = 0 THEN [found |-> FALSE, group |-> <<>>]
      ELSE [found |-> TRUE,
            group |-> SubSeq(s, p, p + RunLen(s, p, {c \in Range(s) : IsDrawingChar(c)}) - 1)]
RevisionSearch(s) ==
  LET p == RevisionCaptureFrom(s, 1)
  IN  IF p = 0 THEN [found |-> FALSE, group |-> <<>>]
      ELSE [found |-> TRUE,
            group |-> SubSeq(s, p, p + RunLen(s, p, {c \in Range(s) : IsRevisionChar(c)}) - 1)]

\* ------------------------------------------------------------------------
\* Python values: None, str, int, bool, list, dict
\* ------------------------------------------------------------------------
PyNone == [t |-> "none"]
PyStr(s) == [t |-> "str", s |-> s]
PyNum(n) == [t |-> "num", n |-> n]
PyBool(b) == [t |-> "bool", b |-> b]
PyList(l) == [t |-> "list", l |-> l]
PyDict(d) == [t |-> "dict", d |-> d]
EmptyDict == PyDict(<<>>)

IsNone(v) == v.t = "none"
IsStr(v) == v.t = "str"
IsList(v) == v.t = "list"
IsDict(v) == v.t = "dict"

\* bool(v): the truth value Python gives v in "if v" and "v or w"
Truthy(v) ==
  CASE v.t = "none" -> FALSE
    [] v.t = "str" -> v.s # <<>>
    [] v.t = "num" -> v.n # 0
    [] v.t = "bool" -> v.b
    [] v.t = "list" -> v.l # <<>>
    [] v.t = "dict" -> DOMAIN v.d # {}

\* decimal digits of a natural number
RECURSIVE NatStr(_)
NatStr(n) ==
  LET d == <<"0","1","2","3","4","5","6","7","8","9">>[(n % 10) + 1]
  IN  IF n < 10 THEN <<d>> ELSE NatStr(n \div 10) \o <<d>>

\* str(v) for the scalar values; lists and dicts are only converted when empty
ToStr(v) ==
  CASE v.t = "str" -> v.s
    [] v.t = "none" -> <<"N","o","n","e">>
    [] v.t = "num" -> NatStr(v.n)
    [] v.t = "bool" -> IF v.b THEN <<"T","r","u","e">> ELSE <<"F","a","l","s","e">>
    [] v.t = "list" /\ v.l = <<>> -> <<"[","]">>
    [] v.t = "dict" /\ DOMAIN v.d = {} -> <<"{","}">>

\* d.get(k) and d.get(k, dflt) on a dict value d
DictGet(d, k) == IF k \in DOMAIN d.d THEN d.d[k] ELSE PyNone
DictGetOr(d, k, dflt) == IF k \in DOMAIN d.d THEN d.d[k] ELSE dflt
\* d[k] = v on a dict value d
DictSet(d, k, v) == PyDict([x \in DOMAIN d.d \cup {k} |-> IF x = k THEN v ELSE d.d[x]])

\* what a call yields: a returned value, or the exception it raised
Returned(v) == [exc |-> "", val |-> v]
Raised(e) == [exc |-> e, val |-> PyNone]

\* ------------------------------------------------------------------------
\* Field schema
\* ------------------------------------------------------------------------
TARGET_KEYS ==
  << "Material_Grade", "Surface_Roughness", "Geometrical_Tolerancing",
     "Dimensional_Tolerancing", "Break_Sharp_Edges", "Retaining_Ring_Grooves_Sharp",
     "Welding_Notes", "Tolerances_General_Linear", "Tolerances_Machining",
     "Tolerances_Welded_Sheetmetal", "Welding_Designation", "Weld_Finish",
     "Post_Treatment", "Notes", "Drawing_Number", "Revision" >>
TargetKeySet == Range(TARGET_KEYS)

TABLE_KEYS ==
  <<"Tolerances_General_Linear", "Tolerances_Machining", "Tolerances_Welded_Sheetmetal">>

\* ------------------------------------------------------------------------
\* Helpers of the normalization pass
\* ------------------------------------------------------------------------

\* _norm_pm without the _DEC_COMMA substitution
NormPmKeepingCommas(s) ==
  IF s = <<>> THEN s ELSE Strip(PmVariantsSub(s))

\* _norm_pm(s)
_norm_pm(s) ==
  IF s = <<>> THEN s ELSE Strip(PmVariantsSub(DecCommaSub(s)))

\* the loop of _clean_welding_notes over the items of its argument
RECURSIVE CleanLoop(_, _, _)
CleanLoop(items, seen, out) ==
  IF items = <<>> THEN out
  ELSE LET n == Head(items)
           tt == Strip(CollapseWs(ToStr(n)))
           tl == StrLower(tt)
       IN  IF ~Truthy(n) THEN CleanLoop(Tail(items), seen, out)
           ELSE IF tl \notin seen
                THEN CleanLoop(Tail(items), seen \cup {tl}, Append(out, PyStr(tt)))
                ELSE CleanLoop(Tail(items), seen, out)

\* _clean_welding_notes(notes): "for n in notes or []" iterates the elements
\* of a list and the characters of a str, and raises TypeError on a truthy
\* int or bool
_clean_welding_notes(notes) ==
  IF ~Truthy(notes) THEN Returned(PyList(<<>>))
  ELSE CASE notes.t = "list" -> Returned(PyList(CleanLoop(notes.l, {}, <<>>)))
         [] notes.t = "str" ->
              Returned(PyList(CleanLoop([i \in DOMAIN notes.s |-> PyStr(<<notes.s[i]>>)], {}, <<>>)))
         [] notes.t \in {"num", "bool"} -> Raised("TypeError")

\* the alternatives of the two patterns of _extract_booleans
BREAK_EDGES_PHRASES ==
  { <<"b","r","e","a","k"," ","s","h","a","r","p"," ","e","d","g","e","s">>,
    <<"s","c","h","e","r","p","e"," ","k","a","n","t","e","n"," ","b","r","e","k","e","n">>,
    <<"d","e","b","u","r","r"," ","e","d","g","e","s">>,
    <<"r","e","m","o","v","e"," ","s","h","a","r","p"," ","e","d","g","e","s">> }
GROOVES_SHARP_PHRASES ==
  { <<"r","e","t","a","i","n","i","n","g"," ","r","i","n","g"," ","g","r","o","o","v","e","s"," ","s","h","a","r","p">>,
    <<"s","e","e","g","e","r","r","i","n","g","-">> \o <<"g","r","o","e","v","e","n"," ","s","c","h","e","r","p">>,
    <<"s","e","e","g","e","r","r","i","n","g">> \o <<"g","r","o","e","v","e","n"," ","s","c","h","e","r","p">>,
    <<"k","e","e","p"," ","r","i","n","g"," ","g","r","o","o","v","e","s"," ","s","h","a","r","p">> }

\* _extract_booleans(raw_text)
_extract_booleans(raw_text) ==
  LET lt == StrLower(raw_text)
  IN  [Break_Sharp_Edges |-> \E w \in BREAK_EDGES_PHRASES : Contains(lt, w),
       Retaining_Ring_Grooves_Sharp |-> \E w \in GROOVES_SHARP_PHRASES : Contains(lt, w)]

\* a tolerance table {"unit": unit, "bands": bands}
Table(unit, bands) == PyDict([k \in {"unit", "bands"} |->
                                IF k = "unit" THEN PyStr(unit) ELSE PyDict(bands)])

\* _normalize_tables(obj): bands.items() raises AttributeError when the bands
\* value is truthy and not a dict
_normalize_tables(obj) ==
  IF ~IsDict(obj) THEN Returned(PyNone)
  ELSE LET u == StrLower(Strip(ToStr(DictGetOr(obj, "unit", PyStr(<<"m","m">>)))))
           unit == IF u # <<>> THEN u ELSE <<"m","m">>
           b == DictGetOr(obj, "bands", EmptyDict)
           bands == IF Truthy(b) THEN b ELSE EmptyDict
           kept == {k \in DOMAIN bands.d : IsStr(bands.d[k])}
       IN  IF ~IsDict(bands) THEN Raised("AttributeError")
           ELSE Returned(Table(unit, [k \in kept |-> PyStr(_norm_pm(bands.d[k].s))]))

\* norm_table(tbl), the closure of _normalize
norm_table(tbl) ==
  IF ~IsDict(tbl) THEN PyNone
  ELSE LET b == DictGet(tbl, "bands")
           bands == IF Truthy(b) THEN b ELSE EmptyDict
           u == DictGetOr(tbl, "unit", PyStr(<<"m","m">>))
           unit == IF Truthy(u) THEN u ELSE PyStr(<<"m","m">>)
       IN  Table(StrLower(Strip(ToStr(unit))),
                 [k \in DOMAIN bands.d |->
                    IF IsNone(bands.d[k]) THEN bands.d[k]
                    ELSE PyStr(_norm_pm(ToStr(bands.d[k])))])

\* ------------------------------------------------------------------------
\* _normalize(data, raw_text), one operator per block of the function.
\* "out" is the dict being built; a block that can raise takes and yields a
\* call result r = [exc, val] whose val is out.
\* ------------------------------------------------------------------------

\* a projection that also keeps the keys of data outside TARGET_KEYS
ProjectKeepingAllKeys(data) ==
  [k \in TargetKeySet \cup DOMAIN data.d |-> DictGet(data, k)]

\* out = {k: data.get(k) for k in TARGET_KEYS}
Project(data) == [k \in TargetKeySet |-> DictGet(data, k)]

\* strings cleanup / lists
CleanScalars(out) ==
  [k \in DOMAIN out |->
     LET v == out[k]
     IN  CASE IsStr(v) ->
                LET vv == Strip(ReplaceChar(ReplaceChar(v.s, "\r", " "), "\n", " "))
                IN  IF vv # <<>> THEN PyStr(vv) ELSE PyNone
           [] IsList(v) ->
                LET keep == SelectSeq(v.l, LAMBDA x : Strip(ToStr(x)) # <<>>)
                IN  PyList([i \in DOMAIN keep |-> PyStr(Strip(CollapseWs(ToStr(keep[i]))))])
           [] OTHER -> v]

\* Material_Grade: strip form words
CleanMaterialGrade(out) ==
  IF IsStr(out["Material_Grade"])
  THEN LET mg_clean == StripSet(FormWordsSub(out["Material_Grade"].s), {" ", "-", "_", ","})
       IN  [out EXCEPT !["Material_Grade"] =
              IF mg_clean # <<>> THEN PyStr(mg_clean) ELSE PyNone]
  ELSE out

\* Material_Grade: infer a grade from the raw text when missing
InferMaterialGrade(out, raw_text) ==
  IF ~Truthy(out["Material_Grade"]) /\ GradeMatches(raw_text)
  THEN [out EXCEPT !["Material_Grade"] =
          PyStr(RemoveChar(StrUpper(GradeGroup(raw_text)), " "))]
  ELSE out

\* a swap that overwrites Material_Grade whatever it holds
SwapOverwritingGrade(out) ==
  LET pt == out["Post_Treatment"]
  IN  IF ~Truthy(pt) THEN Returned(out)
      ELSE IF ~IsStr(pt) THEN Raised("TypeError")
      ELSE IF GradeMatches(pt.s)
           THEN Returned([out EXCEPT !["Material_Grade"] = PyStr(GradeGroup(pt.s)),
                                     !["Post_Treatment"] = PyNone])
           ELSE Returned(out)

\* Post_Treatment: if it looks like a material, swap; re.search raises
\* TypeError on a truthy value that is not a str
SwapPostTreatment(out) ==
  LET pt == out["Post_Treatment"]
  IN  IF ~Truthy(pt) THEN Returned(out)
      ELSE IF ~IsStr(pt) THEN Raised("TypeError")
      ELSE IF GradeMatches(pt.s)
           THEN Returned([out EXCEPT
                  !["Material_Grade"] =
                     IF ~Truthy(@) THEN PyStr(GradeGroup(pt.s)) ELSE @,
                  !["Post_Treatment"] = PyNone])
           ELSE Returned(out)

\* Welding_Notes: clean
CleanWeldingNotes(out) ==
  IF Truthy(out["Welding_Notes"])
  THEN LET c == _clean_welding_notes(out["Welding_Notes"])
       IN  IF c.exc # "" THEN Raised(c.exc)
           ELSE Returned([out EXCEPT !["Welding_Notes"] = c.val])
  ELSE Returned(out)

\* a move that drops the designation without appending it to the notes
DropWeldingDesignation(out) ==
  LET wd == out["Welding_Designation"]
  IN  IF ~Truthy(wd) THEN Returned(out)
      ELSE IF ~IsStr(wd) THEN Raised("TypeError")
      ELSE IF WeldKeywordMatches(wd.s)
           THEN Returned([out EXCEPT !["Welding_Designation"] = PyNone])
           ELSE Returned(out)

\* Welding_Designation: a freeform sentence moves to the notes
MoveWeldingDesignation(out) ==
  LET wd == out["Welding_Designation"]
      w == IF Truthy(out["Welding_Notes"]) THEN out["Welding_Notes"] ELSE PyList(<<>>)
  IN  IF ~Truthy(wd) THEN Returned(out)
      ELSE IF ~IsStr(wd) THEN Raised("TypeError")
      ELSE IF WeldKeywordMatches(wd.s)
           THEN LET c == _clean_welding_notes(PyList(Append(w.l, wd)))
                IN  Returned([out EXCEPT !["Welding_Notes"] = c.val,
                                         !["Welding_Designation"] = PyNone])
           ELSE Returned(out)

\* an enrichment that takes both flags from the raw text whatever the model gave
OverrideBooleans(out, raw_text) ==
  LET bools == _extract_booleans(raw_text)
  IN  [k \in DOMAIN out |->
         IF k \in {"Break_Sharp_Edges", "Retaining_Ring_Grooves_Sharp"}
         THEN PyBool(bools[k]) ELSE out[k]]

\* Booleans from the raw text, where the model gave none
EnrichBooleans(out, raw_text) ==
  LET bools == _extract_booleans(raw_text)
  IN  [k \in DOMAIN out |->
         IF k \in {"Break_Sharp_Edges", "Retaining_Ring_Grooves_Sharp"} /\ IsNone(out[k])
         THEN PyBool(bools[k]) ELSE out[k]]

\* the units Surface_Roughness writes as "MU" "m": {"um", "MU m", "GMU m"}
MICRO_UNITS == {<<"u","m">>, <<"MU","m">>, <<"GMU","m">>}

\* Surface_Roughness direct sanity
NormalizeSurfaceRoughness(out) ==
  LET sr == out["Surface_Roughness"]
      unit(d) == IF IsStr(DictGet(d, "unit"))
                 THEN LET u == ReplaceChar(d.d["unit"].s, "GMU", "MU")
                      IN  DictSet(d, "unit",
                            IF StrLower(u) \in MICRO_UNITS THEN PyStr(<<"MU","m">>)
                            ELSE d.d["unit"])
                 ELSE d
      value(d) == IF IsStr(DictGet(d, "value"))
                  THEN DictSet(d, "value", PyStr(Strip(DecCommaSub(d.d["value"].s))))
                  ELSE d
      parameter(d) == IF IsStr(DictGet(d, "parameter"))
                      THEN DictSet(d, "parameter", PyStr(Strip(d.d["parameter"].s)))
                      ELSE d
      standard(d) == IF IsStr(DictGet(d, "standard"))
                     THEN DictSet(d, "standard", PyStr(Strip(CollapseWs(d.d["standard"].s))))
                     ELSE d
  IN  IF IsDict(sr)
      THEN [out EXCEPT !["Surface_Roughness"] = standard(parameter(value(unit(sr))))]
      ELSE IF ~IsNone(sr) THEN [out EXCEPT !["Surface_Roughness"] = PyNone]
      ELSE out

\* Geometrical/Dimensional standards: trim
NormalizeTolerancing(out) ==
  LET trim(d, f) == IF IsStr(DictGet(d, f))
                    THEN DictSet(d, f, PyStr(Strip(CollapseWs(d.d[f].s))))
                    ELSE d
  IN  [k \in DOMAIN out |->
         IF k \in {"Geometrical_Tolerancing", "Dimensional_Tolerancing"}
         THEN IF IsDict(out[k]) THEN trim(trim(out[k], "standard"), "scope") ELSE PyNone
         ELSE out[k]]

\* Tolerance tables: out[key] = _normalize_tables(out[key]) for the three
\* tables in order; the first call that raises ends the pass
RECURSIVE NormalizeTables(_, _)
NormalizeTables(out, keys) ==
  IF keys = <<>> THEN Returned(out)
  ELSE IF Truthy(out[Head(keys)])
       THEN LET c == _normalize_tables(out[Head(keys)])
            IN  IF c.exc # "" THEN Raised(c.exc)
                ELSE NormalizeTables([out EXCEPT ![Head(keys)] = c.val], Tail(keys))
       ELSE NormalizeTables(out, Tail(keys))

\* a migration that adopts the legacy table whenever there is one
MapLegacyTableAlways(out, data) ==
  LET legacy == DictGet(data, "Tolerances_Table")
  IN  IF Truthy(legacy)
      THEN LET c == _normalize_tables(legacy)
           IN  IF c.exc # "" THEN Raised(c.exc)
               ELSE Returned([out EXCEPT !["Tolerances_General_Linear"] = c.val])
      ELSE Returned(out)

\* Legacy support: Tolerances_Table maps to Tolerances_General_Linear
MapLegacyTable(out, data) ==
  LET legacy == DictGet(data, "Tolerances_Table")
  IN  IF Truthy(legacy) /\ ~Truthy(out["Tolerances_General_Linear"])
      THEN LET c == _normalize_tables(legacy)
           IN  IF c.exc # "" THEN Raised(c.exc)
               ELSE Returned([out EXCEPT !["Tolerances_General_Linear"] = c.val])
      ELSE Returned(out)

\* Normalize all bands: out[key] = norm_table(out[key]) if out[key] else None
NormalizeBands(out) ==
  [k \in DOMAIN out |->
     IF k \in Range(TABLE_KEYS)
     THEN IF Truthy(out[k]) THEN norm_table(out[k]) ELSE PyNone
     ELSE out[k]]

\* Drawing number and revision heuristics
FindDrawingNumber(out, raw_text) ==
  IF ~Truthy(out["Drawing_Number"]) /\ DrawingNumberSearch(raw_text).found
  THEN [out EXCEPT !["Drawing_Number"] = PyStr(Strip(DrawingNumberSearch(raw_text).group))]
  ELSE out
FindRevision(out, raw_text) ==
  IF ~Truthy(out["Revision"]) /\ RevisionSearch(raw_text).found
  THEN [out EXCEPT !["Revision"] = PyStr(Strip(RevisionSearch(raw_text).group))]
  ELSE out

\* Notes ensure list
EnsureNotesList(out) ==
  LET n == out["Notes"]
  IN  IF IsNone(n) THEN [out EXCEPT !["Notes"] = PyList(<<>>)]
      ELSE IF IsStr(n)
           THEN [out EXCEPT !["Notes"] =
                   IF Strip(n.s) # <<>> THEN PyList(<<PyStr(Strip(n.s))>>) ELSE PyList(<<>>)]
      ELSE out

\* r, then the block f when r did not raise
Then(r, f(_)) == IF r.exc # "" THEN r ELSE f(r.val)

\* _normalize(data, raw_text): the returned dict, or the exception raised;
\* data.get raises AttributeError when data is not a dict
_normalize(data, raw_text) ==
  IF ~IsDict(data) THEN Raised("AttributeError")
  ELSE LET r4 == Returned(InferMaterialGrade(CleanMaterialGrade(CleanScalars(Project(data))),
                                             raw_text))
           r5 == Then(r4, SwapPostTreatment)
           r6 == Then(r5, CleanWeldingNotes)
           r7 == Then(r6, MoveWeldingDesignation)
           r10 == Then(r7, LAMBDA o : Returned(NormalizeTolerancing(
                           NormalizeSurfaceRoughness(EnrichBooleans(o, raw_text)))))
           r11 == Then(r10, LAMBDA o : NormalizeTables(o, TABLE_KEYS))
           r12 == Then(r11, LAMBDA o : MapLegacyTable(o, data))
       IN  Then(r12, LAMBDA o : Returned(EnsureNotesList(FindRevision(
                  FindDrawingNumber(NormalizeBands(o), raw_text), raw_text))))

\* ------------------------------------------------------------------------
\* json.loads on the JSON texts of the model.  A quoted string literal is one
\* symbol of the text (the symbol "Notes" stands for the seven characters of
\* the literal with its quotes); STRING_LITERALS gives the str it denotes.
\* Covered: objects, arrays, string literals, unsigned integers, null, true,
\* false, whitespace.  Every other character is a syntax error.
\* ------------------------------------------------------------------------
STRING_LITERALS ==
  ("Notes" :> <<"N","o","t","e","s">>) @@
  ("Post_Treatment" :> <<"P","o","s","t","_","T","r","e","a","t","m","e","n","t">>) @@
  ("Dimensions" :> <<"D","i","m","e","n","s","i","o","n","s">>) @@
  ("ok" :> <<"o","k">>)

IsStringLiteral(c) == c \in DOMAIN STRING_LITERALS

RECURSIVE NatVal(_)
NatVal(ds) ==
  IF ds = <<>> THEN 0
  ELSE 10 * NatVal(SubSeq(ds, 1, Len(ds) - 1))
         + (CHOOSE n \in 0..9 : NatStr(n) = <<ds[Len(ds)]>>)

SkipWs(s, i) == i + RunLen(s, i, SPACES)
ParseFail == [ok |-> FALSE, val |-> PyNone, next |-> 0]
Parsed(v, n) == [ok |-> TRUE, val |-> v, next |-> n]

\* the scanner of the json module: a value starting at i
RECURSIVE ParseValue(_, _)
RECURSIVE ParseMembers(_, _, _)
RECURSIVE ParseElements(_, _, _)
ParseValue(s, i) ==
  IF i > Len(s) THEN ParseFail
  ELSE CASE s[i] = "{" ->
              LET j == SkipWs(s, i + 1)
              IN  IF j <= Len(s) /\ s[j] = "}" THEN Parsed(EmptyDict, j + 1)
                  ELSE ParseMembers(s, j, EmptyDict)
         [] s[i] = "[" ->
              LET j == SkipWs(s, i + 1)
              IN  IF j <= Len(s) /\ s[j] = "]" THEN Parsed(PyList(<<>>), j + 1)
                  ELSE ParseElements(s, j, <<>>)
         [] IsStringLiteral(s[i]) -> Parsed(PyStr(STRING_LITERALS[s[i]]), i + 1)
         [] IsDigit(s[i]) ->
              LET n == IF s[i] = "0" THEN 1 ELSE RunLen(s, i, DIGITS)
              IN  Parsed(PyNum(NatVal(SubSeq(s, i, i + n - 1))), i + n)
         [] LitAt(s, i, <<"n","u","l","l">>, FALSE) -> Parsed(PyNone, i + 4)
         [] LitAt(s, i, <<"t","r","u","e">>, FALSE) -> Parsed(PyBool(TRUE), i + 4)
         [] LitAt(s, i, <<"f","a","l","s","e">>, FALSE) -> Parsed(PyBool(FALSE), i + 5)
         [] OTHER -> ParseFail

\* the members of an object from position i on; a later key replaces an
\* earlier one
ParseMembers(s, i, acc) ==
  IF i > Len(s) \/ ~IsStringLiteral(s[i]) THEN ParseFail
  ELSE LET j == SkipWs(s, i + 1)
       IN  IF j > Len(s) \/ s[j] # ":" THEN ParseFail
           ELSE LET v == ParseValue(s, SkipWs(s, j + 1))
                    m == SkipWs(s, v.next)
                    acc2 == DictSet(acc, s[i], v.val)
                IN  IF ~v.ok \/ m > Len(s) THEN ParseFail
                    ELSE IF s[m] = "}" THEN Parsed(acc2, m + 1)
                    ELSE IF s[m] = "," THEN ParseMembers(s, SkipWs(s, m + 1), acc2)
                    ELSE ParseFail

\* the elements of an array from position i on
ParseElements(s, i, acc) ==
  LET v == ParseValue(s, i)
      m == SkipWs(s, v.next)
  IN  IF ~v.ok \/ m > Len(s) THEN ParseFail
      ELSE IF s[m] = "]" THEN Parsed(PyList(Append(acc, v.val)), m + 1)
      ELSE IF s[m] = "," THEN ParseElements(s, SkipWs(s, m + 1), Append(acc, v.val))
      ELSE ParseFail

\* json.loads(s): the value, or JSONDecodeError (also on trailing data)
json_loads(s) ==
  LET v == ParseValue(s, SkipWs(s, 1))
  IN  IF v.ok /\ SkipWs(s, v.next) = Len(s) + 1 THEN Returned(v.val)
      ELSE Raised("JSONDecodeError")

\* a lazy pattern \{[\s\S]*?\} instead: from the first "{" to the first "}"
\* after it
ShortestBraceBlock(s) ==
  LET opens == {i \in DOMAIN s : s[i] = "{"}
      first == CHOOSE i \in opens : \A j \in opens : i <= j
      closes == {i \in DOMAIN s : s[i] = "}" /\ i > first}
      last == CHOOSE i \in closes : \A j \in closes : i <= j
  IN  IF opens = {} THEN <<>>
      ELSE IF closes = {} THEN <<>>
      ELSE SubSeq(s, first, last)

\* re.search(r"\{[\s\S]*\}", s).group(0): from the first "{" to the last "}"
\* after it; <<>> when there is none
BraceBlock(s) ==
  LET opens == {i \in DOMAIN s : s[i] = "{"}
      first == CHOOSE i \in opens : \A j \in opens : i <= j
      closes == {i \in DOMAIN s : s[i] = "}" /\ i > first}
      last == CHOOSE i \in closes : \A j \in closes : j <= i
  IN  IF opens = {} THEN <<>>
      ELSE IF closes = {} THEN <<>>
      ELSE SubSeq(s, first, last)

\* _coerce_json(s)
_coerce_json(s) ==
  LET st == Strip(s)
      blk == BraceBlock(st)
  IN  IF st = <<>> THEN Returned(EmptyDict)
      ELSE IF json_loads(st).exc = "" THEN json_loads(st)
      ELSE IF blk = <<>> THEN Raised("ValueError")
      ELSE IF json_loads(blk).exc = "" THEN json_loads(blk)
      ELSE Raised("ValueError")

\* ------------------------------------------------------------------------
\* extract_fields_with_llm(document_text, max_chars): the request/retry loop
\* ------------------------------------------------------------------------
VARIABLES
  document_text,   \* the argument of extract_fields_with_llm
  pc,              \* "start", "attempt" (loop head), "backoff", "done"
  attempt,         \* the loop variable of "for attempt in range(3)"
  profile_block,   \* the profile block of the prompt
  profile_result,  \* what load_profile did: NoResult until it is called
  response_text,   \* the local response_text
  last_err,        \* the local last_err: PyNone or [kind, attempt]
  events,          \* calls to the collaborators, in order
  outcomes,        \* how each pass through the loop body ended, in order
  logged_err,      \* what the final logger.error reports
  result,          \* what the call yields: NoResult until it ends
  \* one application of _normalize (and one more on its own output)
  data,            \* the coerced object given to _normalize
  raw_text,        \* the source text given to _normalize
  phase,           \* "input", "normalized", "renormalized"
  normalized,      \* _normalize(data, raw_text)
  renormalized,    \* _normalize(normalized, raw_text)
  \* one application of _coerce_json
  output_text,     \* the model output given to _coerce_json
  coerced,         \* _coerce_json(output_text): NoResult until it is called
  \* one run of process_directory_for_csv
  pdf_found,       \* list(root_path.rglob("*.pdf")), in the order of the file system
  pdf_files,       \* the local pdf_files
  batch_pc,        \* "scan", "loop", "finish", "done"
  pdf_index,       \* the position of the for loop in pdf_files
  pdf_results,     \* what process_single_pdf returned for each file, in order
  csv_rows,        \* the rows given to the writer, the header first
  processed_count, \* the local processed_count
  failed_count,    \* the local failed_count
  batch_report     \* the counts of the final logger.success: PyNone until then

vars == <<document_text, pc, attempt, profile_block, profile_result, response_text, last_err,
          events, outcomes, logged_err, result, data, raw_text, phase, normalized, renormalized,
          output_text, coerced, pdf_found, pdf_files, batch_pc, pdf_index, pdf_results,
          csv_rows, processed_count, failed_count, batch_report>>
loopVars == <<document_text, pc, attempt, profile_block, profile_result, response_text, last_err,
              events, outcomes, logged_err, result>>
normVars == <<data, raw_text, phase, normalized, renormalized>>
coerceVars == <<output_text, coerced>>
batchVars == <<pdf_found, pdf_files, batch_pc, pdf_index, pdf_results, csv_rows,
               processed_count, failed_count, batch_report>>

NoResult == [exc |-> "pending", val |-> PyNone]

\* "for attempt in range(3)"
MAX_ATTEMPTS == 3
\* the default of the parameter max_chars
max_chars == 20000
\* wait_time = 1.5 * (attempt + 1), in tenths of a second
BACKOFF_TENTHS == 15

\* empty_result: every key None, the two note lists empty
empty_result ==
  [k \in TargetKeySet |->
     IF k \in {"Welding_Notes", "Notes"} THEN PyList(<<>>) ELSE PyNone]

\* document_text[:max_chars] if len(document_text) > max_chars else document_text
truncated_text(text) ==
  IF Len(text) > max_chars THEN SubSeq(text, 1, max_chars) ELSE text

\* the classes of each exception the loop body can raise
EXC_CLASSES ==
  [JSONDecodeError |-> {"JSONDecodeError", "ValueError", "Exception"},
   ValueError |-> {"ValueError", "Exception"},
   TypeError |-> {"TypeError", "Exception"},
   AttributeError |-> {"AttributeError", "Exception"},
   ConnectionError |-> {"ConnectionError", "OSError", "Exception"}]

\* the except clauses of the loop, in order, with the error text each records
EXCEPT_CLAUSES ==
  << [class |-> "JSONDecodeError", err |-> "JSON Decode Error"],
     [class |-> "ValueError", err |-> "Value Error during JSON coercion"],
     [class |-> "Exception", err |-> "General LLM API Error"] >>

\* a handler list without its last clause "except Exception": what is not a
\* ValueError then leaves the loop
HandlerWithoutCatchAll(e) ==
  LET hits == {i \in 1..2 : EXCEPT_CLAUSES[i].class \in EXC_CLASSES[e]}
  IN  IF hits = {} THEN 0 ELSE CHOOSE i \in hits : \A j \in hits : i <= j

\* the first except clause that catches exception e; 0: none, e propagates
Handler(e) ==
  LET hits == {i \in DOMAIN EXCEPT_CLAUSES : EXCEPT_CLAUSES[i].class \in EXC_CLASSES[e]}
  IN  IF hits = {} THEN 0 ELSE CHOOSE i \in hits : \A j \in hits : i <= j

\* The body of the try block for one response of model.generate_content:
\* "continue" (soft failure), "return" with the record, or "raise" with the
\* exception that left the block; text is what response_text holds afterwards
\* "data = _coerce_json(response_text); normalized = _normalize(data, ...);
\* return normalized", r being the outcome of the two calls in sequence
ReturnOrRaise(r, txt) ==
  IF r.exc # "" THEN [how |-> "raise", exc |-> r.exc, text |-> txt, val |-> PyNone]
  ELSE [how |-> "return", exc |-> "", text |-> txt, val |-> r.val]

NormalizeCoerced(c, doc) ==
  IF c.exc # "" THEN c ELSE _normalize(c.val, truncated_text(doc))

CoerceAndNormalize(txt, doc) ==
  CHOOSE b \in { ReturnOrRaise(r, txt) :
                   r \in { NormalizeCoerced(c, doc) : c \in { _coerce_json(txt) } } } : TRUE

TryBody(resp, doc, prev_text) ==
  LET txt == IF resp.parts /\ Truthy(resp.text) THEN resp.text.s ELSE <<>>
  IN  IF resp.exc # "" THEN [how |-> "raise", exc |-> resp.exc, text |-> prev_text, val |-> PyNone]
      ELSE IF resp.block_reason
           THEN [how |-> "continue", exc |-> "", text |-> prev_text, val |-> PyNone]
      ELSE IF Strip(txt) = <<>>
           THEN [how |-> "continue", exc |-> "", text |-> txt, val |-> PyNone]
      ELSE CoerceAndNormalize(txt, doc)

\* how one pass through the loop body ended: "transport" (generate_content
\* raised), "blocked", "empty" (no text), the exception of _coerce_json or
\* _normalize, or "ok"
Outcome(resp, b) ==
  IF resp.exc # "" THEN "transport"
  ELSE IF resp.block_reason THEN "blocked"
  ELSE IF b.how = "continue" THEN "empty"
  ELSE IF b.how = "raise" THEN b.exc
  ELSE "ok"

\* the texts the model collaborator answers with
RESPONSE_TEXTS ==
  { <<"{","Notes",":","ok","}">>,
    <<"{","}">>,
    <<" ","\n">>,
    <<"x">>,
    <<"x"," ","{","Notes",":","[","ok","]","}"," ","x">>,
    <<"{","Notes",":","ok">>,
    <<"[","1","]">>,
    <<"n","u","l","l">>,
    <<"5">>,
    <<"{","Post_Treatment",":","5","}">>,
    <<"{","Post_Treatment",":","ok",",","Dimensions",":","[","]","}">> }

\* the outcomes of one model.generate_content call: a transport error, a
\* blocked prompt, a response without candidates or parts, a part whose text
\* is None, a part with text
RESPONSES ==
  { [exc |-> "ConnectionError", block_reason |-> FALSE, parts |-> FALSE, text |-> PyNone],
    [exc |-> "", block_reason |-> TRUE, parts |-> FALSE, text |-> PyNone],
    [exc |-> "", block_reason |-> FALSE, parts |-> FALSE, text |-> PyNone],
    [exc |-> "", block_reason |-> FALSE, parts |-> TRUE, text |-> PyNone] }
  \cup { [exc |-> "", block_reason |-> FALSE, parts |-> TRUE, text |-> PyStr(s)] :
           s \in RESPONSE_TEXTS }

\* the outcomes of load_profile: "" (no profile), a JSON string, an exception
PROFILE_OUTCOMES ==
  { Returned(PyStr(<<>>)), Returned(PyStr(<<"{","}">>)), Raised("OSError") }

DOCUMENT_TEXTS ==
  { <<>>, <<" ","\n">>, <<"x">>,
    <<"d","e","b","u","r","r"," ","e","d","g","e","s"," ","3","0","4">> }

\* a test for the empty string only
IsEmptyText(text) == text = <<>>

\* if not document_text or not document_text.strip()
IsBlank(text) == text = <<>> \/ Strip(text) = <<>>

\* a prologue without the try/except around load_profile: its exception
\* ends the call with the empty result before any request
StartAbortingOnProfileError ==
  /\ pc = "start"
  /\ IF IsBlank(document_text)
     THEN /\ result' = Returned(empty_result)
          /\ pc' = "done"
          /\ UNCHANGED <<profile_block, profile_result, events>>
     ELSE /\ \E prof \in PROFILE_OUTCOMES :
               /\ profile_result' = prof
               /\ profile_block' = IF prof.exc = "" /\ Truthy(prof.val)
                                   THEN prof.val.s ELSE <<>>
               /\ IF prof.exc = ""
                  THEN pc' = "attempt" /\ UNCHANGED result
                  ELSE pc' = "done" /\ result' = Returned(empty_result)
          /\ events' = Append(events, [ev |-> "load_profile", n |-> 0])
  /\ UNCHANGED <<document_text, attempt, response_text, last_err, logged_err, outcomes>>
  /\ UNCHANGED <<normVars, coerceVars, batchVars>>

\* The blank-input return, then load_profile and the prompt.  The template
\* has the one placeholder document_text, so substitute() does not raise;
\* genai.GenerativeModel(MODEL_NAME) builds the client and sends no request.
Start ==
  /\ pc = "start"
  /\ IF IsBlank(document_text)
     THEN /\ result' = Returned(empty_result)
          /\ pc' = "done"
          /\ UNCHANGED <<profile_block, profile_result, events>>
     ELSE /\ \E prof \in PROFILE_OUTCOMES :
               /\ profile_result' = prof
               /\ profile_block' = IF prof.exc = "" /\ Truthy(prof.val)
                                   THEN prof.val.s ELSE <<>>
          /\ events' = Append(events, [ev |-> "load_profile", n |-> 0])
          /\ pc' = "attempt"
          /\ UNCHANGED result
  /\ UNCHANGED <<document_text, attempt, response_text, last_err, logged_err, outcomes>>
  /\ UNCHANGED <<normVars, coerceVars, batchVars>>

\* one pass through the try block and, on an exception, its except clause
Attempt ==
  /\ pc = "attempt"
  /\ attempt < MAX_ATTEMPTS
  /\ \E resp \in RESPONSES :
       \E b \in {TryBody(resp, document_text, response_text)} :
           /\ events' = Append(events, [ev |-> "call", n |-> attempt + 1])
           /\ outcomes' = Append(outcomes, Outcome(resp, b))
           /\ response_text' = b.text
           /\ CASE b.how = "continue" ->
                     /\ attempt' = attempt + 1
                     /\ UNCHANGED <<pc, last_err, result>>
                [] b.how = "return" ->
                     /\ result' = Returned(b.val)
                     /\ pc' = "done"
                     /\ UNCHANGED <<attempt, last_err>>
                [] b.how = "raise" /\ Handler(b.exc) > 0 ->
                     /\ last_err' = [kind |-> EXCEPT_CLAUSES[Handler(b.exc)].err,
                                     n |-> attempt + 1]
                     /\ pc' = "backoff"
                     /\ UNCHANGED <<attempt, result>>
                [] b.how = "raise" /\ Handler(b.exc) = 0 ->
                     /\ result' = Raised(b.exc)
                     /\ pc' = "done"
                     /\ UNCHANGED <<attempt, last_err>>
  /\ UNCHANGED <<document_text, profile_block, profile_result, logged_err>>
  /\ UNCHANGED <<normVars, coerceVars, batchVars>>

\* wait_time = 1.5 * (attempt + 1); time.sleep(wait_time); next iteration
Backoff ==
  /\ pc = "backoff"
  /\ events' = Append(events, [ev |-> "sleep", n |-> BACKOFF_TENTHS * (attempt + 1)])
  /\ attempt' = attempt + 1
  /\ pc' = "attempt"
  /\ UNCHANGED <<document_text, profile_block, profile_result, response_text, last_err,
                 logged_err, result, outcomes>>
  /\ UNCHANGED <<normVars, coerceVars, batchVars>>

\* a loop that may give up once two attempts have been made
ExhaustedAfterTwo ==
  /\ pc = "attempt"
  /\ attempt >= MAX_ATTEMPTS - 1
  /\ logged_err' = last_err
  /\ result' = Returned(empty_result)
  /\ pc' = "done"
  /\ UNCHANGED <<document_text, attempt, profile_block, profile_result, response_text,
                 last_err, events, outcomes>>
  /\ UNCHANGED <<normVars, coerceVars, batchVars>>

\* after the loop: logger.error(... last_err); return empty_result
Exhausted ==
  /\ pc = "attempt"
  /\ attempt = MAX_ATTEMPTS
  /\ logged_err' = last_err
  /\ result' = Returned(empty_result)
  /\ pc' = "done"
  /\ UNCHANGED <<document_text, attempt, profile_block, profile_result, response_text,
                 last_err, events, outcomes>>
  /\ UNCHANGED <<normVars, coerceVars, batchVars>>

CoerceIdle ==
  /\ output_text = <<>>
  /\ coerced = NoResult

BatchIdle ==
  /\ pdf_found = <<>>
  /\ pdf_files = <<>>
  /\ batch_pc = "idle"
  /\ pdf_index = 0
  /\ pdf_results = <<>>
  /\ csv_rows = <<>>
  /\ processed_count = 0
  /\ failed_count = 0
  /\ batch_report = PyNone

NormIdle ==
  /\ data = EmptyDict
  /\ raw_text = <<>>
  /\ phase = "idle"
  /\ normalized = NoResult
  /\ renormalized = NoResult

Init ==
  /\ document_text \in DOCUMENT_TEXTS
  /\ pc = "start"
  /\ attempt = 0
  /\ profile_block = <<>>
  /\ profile_result = NoResult
  /\ response_text = <<>>
  /\ last_err = PyNone
  /\ events = <<>>
  /\ outcomes = <<>>
  /\ logged_err = PyNone
  /\ result = NoResult
  /\ NormIdle
  /\ CoerceIdle
  /\ BatchIdle

Next == Start \/ Attempt \/ Backoff \/ Exhausted

Spec == Init /\ [][Next]_vars

\* the loop runs to its end: no step is left pending forever
FairSpec == Spec /\ WF_vars(Next)

\* ------------------------------------------------------------------------
\* Inputs of _normalize: the coerced objects and source texts explored.
\* Strings are built from pieces, at most MaxPieces of them; band values are
\* all strings over BAND_CHARS of at most MaxBandLen characters.
\* ------------------------------------------------------------------------
RECURSIVE Concats(_, _)
Concats(P, n) ==
  IF n = 0 THEN {<<>>}
  ELSE Concats(P, n - 1) \cup {p \o q : p \in P, q \in Concats(P, n - 1)}

\* a key the object does not carry
ABSENT == [t |-> "absent"]
\* the dict with the keys of c that are not ABSENT
MkData(c) == PyDict([k \in {x \in DOMAIN c : c[x] # ABSENT} |-> c[k]])

GRADE_PIECES ==
  { <<"3","0","4">>,
    <<"L">>,
    <<" ">>,
    <<"x">> }
GRADE_EXAMPLES ==
  { <<"a","2">>,
    <<"A","4"," ","c","o","a","t","e","d">>,
    <<"S","\n","2","3","5">>,
    <<"S"," ","2","3","5","5">>,
    <<"1",".","4","3","0","1">>,
    <<"E","N"," ","A","W","-","5","0","8","3">>,
    <<"A","l","M","g","3">>,
    <<"3","1","6","l">>,
    <<"a","n","o","d","i","z","e","d">> }
POST_TREATMENT_VALUES ==
  { ABSENT, PyNone, PyNum(0), PyNum(5), PyList(<<PyStr(<<"3","0","4">>)>>) }
  \cup { PyStr(s) : s \in Concats(GRADE_PIECES, MaxPieces) \cup GRADE_EXAMPLES }
MATERIAL_GRADE_VALUES ==
  { ABSENT, PyNone, PyNum(0), PyNum(7), PyBool(FALSE), PyList(<<>>),
    PyStr(<<>>),
    PyStr(<<" ">>),
    PyStr(<<"p","l","a","t","e">>),
    PyStr(<<"S","2","3","5"," ","p","l","a","t","e">>),
    PyStr(<<"3","1","6">>),
    PyStr(<<"r","o","u","n","d"," ","s","h","e","e","t"," ","b","a","r">>),
    PyStr(<<"-"," ","3","0","4"," ","T","u","b","e">>) }
GRADE_TEXTS ==
  { <<>>,
    <<"m","a","t",":"," ","s","\n","3","5","5"," ","x">> }
MaterialInputs ==
  { [data |-> MkData(("Material_Grade" :> mg) @@ ("Post_Treatment" :> pt)), text |-> tx] :
      mg \in MATERIAL_GRADE_VALUES, pt \in POST_TREATMENT_VALUES, tx \in GRADE_TEXTS }

WELD_PIECES ==
  { <<"w","e","l","d">>,
    <<"e","d">>,
    <<" ">>,
    <<"G","r","i","n","d">>,
    <<"\t">> }
WELD_EXAMPLES ==
  { <<"C","o","n","t","i","n","u","o","u","s"," ","w","e","l","d",","," ","g","r","i","n","d"," ","s","m","o","o","t","h"," ","a","t"," ","c","o","r","n","e","r","s">>,
    <<"F","i","l","l","e","t"," ","w","e","l","d","e","d"," ","c","o","r","n","e","r","s">>,
    <<"a","5"," ","\r","\n"," ","S","T","I","T","C","H">>,
    <<"f","i","n","i","s","h","_","1">>,
    <<"l","e","n","g","t","h",":","3">> }
WELDING_DESIGNATION_VALUES ==
  { ABSENT, PyNone, PyNum(0), PyNum(5), PyList(<<PyStr(<<"w","e","l","d">>)>>) }
  \cup { PyStr(s) : s \in Concats(WELD_PIECES, MaxPieces) \cup WELD_EXAMPLES }
WELDING_NOTES_VALUES ==
  { ABSENT, PyNone, PyNum(0), PyNum(5), PyBool(TRUE), PyList(<<>>),
    PyStr(<<"a","b"," ","c">>),
    PyList(<<PyStr(<<"W","E","L","D">>), PyStr(<<"x">>)>>),
    PyList(<<PyStr(<<"a"," "," ","b">>), PyStr(<<" ">>), PyStr(<<"A"," ","b">>), PyNum(3), PyNone, PyStr(<<"G","r","i","n","d","\t","x">>)>>) }
WeldingInputs ==
  { [data |-> MkData(("Welding_Notes" :> wn) @@ ("Welding_Designation" :> wd)), text |-> <<>>] :
      wn \in WELDING_NOTES_VALUES, wd \in WELDING_DESIGNATION_VALUES }

BOOLEAN_PIECES ==
  { <<"d","e","b","u","r","r">>,
    <<" ","E","d","g","e","s">>,
    <<"S","e","e","g","e","r","r","i","n","g">>,
    <<"-","g","r","o","e","v","e","n"," ","s","c","h","e","r","p">> }
BOOLEAN_EXAMPLES ==
  { <<"D","e","b","u","r","r"," ","E","D","G","E","S",";"," ","s","e","e","g","e","r","r","i","n","g","g","r","o","e","v","e","n"," ","s","c","h","e","r","p">>,
    <<"B","r","e","a","k"," ","s","h","a","r","p"," ","e","d","g","e","s">>,
    <<"x"," ","s","c","h","e","r","p","e"," ","k","a","n","t","e","n"," ","b","r","e","k","e","n">>,
    <<"r","e","m","o","v","e"," ","s","h","a","r","p"," "," ","e","d","g","e","s">>,
    <<"R","E","M","O","V","E"," ","S","H","A","R","P"," ","E","D","G","E","S",".">>,
    <<"R","e","t","a","i","n","i","n","g"," ","r","i","n","g"," ","g","r","o","o","v","e","s"," ","s","h","a","r","p">>,
    <<"s","e","e","g","e","r","r","i","n","g","g","r","o","e","v","e","n"," ","s","c","h","e","r","p">>,
    <<"s","e","e","g","e","r","r","i","n","g","-","-","g","r","o","e","v","e","n"," ","s","c","h","e","r","p">> }
BOOLEAN_VALUES == { ABSENT, PyNone, PyBool(TRUE), PyBool(FALSE) }
BooleanInputs ==
  { [data |-> MkData(("Break_Sharp_Edges" :> b) @@ ("Retaining_Ring_Grooves_Sharp" :> g)),
     text |-> tx] :
      b \in BOOLEAN_VALUES, g \in BOOLEAN_VALUES,
      tx \in Concats(BOOLEAN_PIECES, MaxPieces) \cup BOOLEAN_EXAMPLES }

BAND_CHARS == { <<"1">>, <<",">>, <<"+">>, <<"/">>, <<"-">> }
BAND_EXAMPLES ==
  { <<"PM","1",",","5">>,
    <<"+","/","-","0",",","2">>,
    <<"1",",","2",",","3">>,
    <<"1",",","2",",","3",",","4",",","5">>,
    <<" ","PM"," ","0",",","5"," ">>,
    <<"PM","PM">>,
    <<"+","/","-"," ","1","2",",","5","0">>,
    <<"0",",","5"," ","+","-","0",",","1">> }
BAND_VALUES ==
  { PyNone, PyNum(5) } \cup { PyStr(s) : s \in Concats(BAND_CHARS, MaxBandLen) \cup BAND_EXAMPLES }
\* tables with one band, and tables of another shape
TABLE_VALUES ==
  { PyDict(("bands" :> PyDict(("0-20" :> v)))) : v \in BAND_VALUES }
  \cup { PyNone, EmptyDict, PyNum(5), PyStr(<<"x">>), PyList(<<>>),
         PyDict(("unit" :> PyStr(<<" ","M","M">>)) @@
                ("bands" :> PyDict(("0-20" :> PyStr(<<"PM","1",",","5">>)) @@
                                   (">2000" :> PyStr(<<"+","-","2">>)) @@
                                   ("20-200" :> PyNum(1))))),
         PyDict(("unit" :> PyNone) @@ ("bands" :> PyNone)),
         PyDict(("unit" :> PyStr(<<>>)) @@ ("bands" :> EmptyDict)),
         PyDict(("bands" :> PyStr(<<"x">>))),
         PyDict(("bands" :> PyList(<<PyNum(1)>>))),
         PyDict(("bands" :> PyNum(5))) }
LEGACY_TABLE ==
  PyDict(("unit" :> PyStr(<<"c","m">>)) @@
         ("bands" :> PyDict(("0-20" :> PyStr(<<"+","/","-","0",",","2">>)))))
TableInputs ==
  { [data |-> MkData(("Tolerances_General_Linear" :> v)), text |-> <<>>] : v \in TABLE_VALUES }
  \cup { [data |-> MkData((k :> v)), text |-> <<>>] :
           k \in Range(TABLE_KEYS) \cup {"Tolerances_Table"},
           v \in { t \in TABLE_VALUES :
                     IsDict(t) /\ "bands" \in DOMAIN t.d /\ IsDict(t.d["bands"])
                       => \E b \in Range(t.d["bands"].d) :
                            b \in {PyStr(s) : s \in BAND_EXAMPLES} } }
  \cup { [data |-> MkData((k :> v) @@ ("Tolerances_Table" :> LEGACY_TABLE)), text |-> <<>>] :
           k \in Range(TABLE_KEYS),
           v \in { PyNone, EmptyDict, PyStr(<<"x">>), PyDict(("bands" :> EmptyDict)),
                   PyDict(("bands" :> PyDict(("0-20" :> PyStr(<<"1",",","1">>))))) } }

NOTES_VALUES ==
  { ABSENT, PyNone, PyNum(0), PyNum(5), PyBool(TRUE), EmptyDict, PyList(<<>>),
    PyStr(<<>>),
    PyStr(<<" ","\n">>),
    PyStr(<<"o","k">>),
    PyStr(<<"a"," "," ","b">>),
    PyStr(<<"a","\r","\n","b">>),
    PyStr(<<" ","a","\t","b"," ">>),
    PyList(<<PyStr(<<"a"," "," ","b">>), PyStr(<<>>), PyNum(5), PyNone, PyStr(<<" ","A"," ">>)>>) }
LABEL_TEXTS ==
  { <<>>,
    <<"D","r","a","w","i","n","g"," ","n","u","m","b","e","r",":"," ","A","-","1","2","/","3"," ","x">>,
    <<"T","e","k","e","n","i","n","g"," ","n","u","m","m","e","r">>,
    <<"t","e","k","e","n","i","n","g","n","u","m","m","e","r"," ","-"," ","7",".","1">>,
    <<"R","e","v","."," ","B">>,
    <<"R","e","v","i","s","i","e",":"," ","C">>,
    <<"r","e","v","i","s","i","o","n","-">>,
    <<"D","r","a","w","i","n","g"," "," ","N","u","m","b","e","r"," ","9"," ","R","E","V",":","2">> }
SCALAR_VALUES ==
  { ABSENT, PyNone, PyNum(0), PyList(<<>>), PyStr(<<>>), PyStr(<<" ","D","-","1","\n">>), PyStr(<<"B">>) }
LabelInputs ==
  { [data |-> MkData(("Drawing_Number" :> dn) @@ ("Revision" :> rv)), text |-> tx] :
      dn \in SCALAR_VALUES, rv \in SCALAR_VALUES, tx \in LABEL_TEXTS }

SURFACE_ROUGHNESS_VALUES ==
  { ABSENT, PyNone, PyNum(5), PyStr(<<"R","a"," ","3",",","2">>), PyList(<<>>), EmptyDict,
    PyDict(("unit" :> PyStr(<<"u","m">>)) @@ ("value" :> PyStr(<<" ","3",",","2"," ">>)) @@
           ("parameter" :> PyStr(<<" ","R","a"," ">>)) @@ ("standard" :> PyStr(<<"I","S","O"," ","\n"," ","1","3","0","2">>))),
    PyDict(("unit" :> PyStr(<<"GMU","M">>)) @@ ("value" :> PyStr(<<"1",",","2",",","3">>))),
    PyDict(("unit" :> PyStr(<<"U","m"," ">>)) @@ ("value" :> PyNum(3)) @@ ("other" :> PyNone)),
    PyDict(("unit" :> PyStr(<<"MU","m">>)) @@ ("standard" :> PyNone)) }
TOLERANCING_VALUES ==
  { ABSENT, PyNone, PyStr(<<"I","S","O"," ","8","0","1","5">>), PyNum(0), EmptyDict,
    PyDict(("standard" :> PyStr(<<" ","I","S","O"," "," ","8","0","1","5"," ">>)) @@ ("scope" :> PyStr(<<"a","l","l","\t","p","a","r","t","s">>))),
    PyDict(("standard" :> PyNum(5)) @@ ("other" :> PyStr(<<" ","x"," ">>))) }
\* objects of several unrelated fields, some carrying keys outside TARGET_KEYS
MixedInputs ==
  { [data |-> MkData(("Notes" :> n) @@ ("Weld_Finish" :> wf) @@ ("Dimensions" :> dm)),
     text |-> <<>>] :
      n \in NOTES_VALUES, wf \in SCALAR_VALUES, dm \in {ABSENT, PyList(<<>>), PyNum(5)} }
  \cup
  { [data |-> MkData(("Surface_Roughness" :> sr) @@ ("Geometrical_Tolerancing" :> gt)
                     @@ ("Dimensional_Tolerancing" :> dt)),
     text |-> <<>>] :
      sr \in SURFACE_ROUGHNESS_VALUES, gt \in TOLERANCING_VALUES,
      dt \in {ABSENT, PyDict(("scope" :> PyStr(<<" ","a"," "," ","b">>)))} }

NormalizeInputs ==
  MaterialInputs \cup WeldingInputs \cup BooleanInputs \cup TableInputs
    \cup LabelInputs \cup MixedInputs

\* ------------------------------------------------------------------------
\* One application of _normalize, then one more on its own output
\* ------------------------------------------------------------------------
LoopIdle ==
  /\ document_text = <<>>
  /\ pc = "idle"
  /\ attempt = 0
  /\ profile_block = <<>>
  /\ profile_result = NoResult
  /\ response_text = <<>>
  /\ last_err = PyNone
  /\ events = <<>>
  /\ outcomes = <<>>
  /\ logged_err = PyNone
  /\ result = NoResult

InitNormalize ==
  /\ \E inp \in NormalizeInputs : data = inp.data /\ raw_text = inp.text
  /\ phase = "input"
  /\ normalized = NoResult
  /\ renormalized = NoResult
  /\ LoopIdle
  /\ CoerceIdle
  /\ BatchIdle

\* normalized = _normalize(data, raw_text)
Normalize ==
  /\ phase = "input"
  /\ normalized' = _normalize(data, raw_text)
  /\ phase' = "normalized"
  /\ UNCHANGED <<data, raw_text, renormalized>>
  /\ UNCHANGED <<loopVars, coerceVars, batchVars>>

\* renormalized = _normalize(normalized, raw_text), when the first call returned
Renormalize ==
  /\ phase = "normalized"
  /\ normalized.exc = ""
  /\ renormalized' = _normalize(PyDict(normalized.val), raw_text)
  /\ phase' = "renormalized"
  /\ UNCHANGED <<data, raw_text, normalized>>
  /\ UNCHANGED <<loopVars, coerceVars, batchVars>>

SpecNormalize == InitNormalize /\ [][Normalize \/ Renormalize]_vars

\* ------------------------------------------------------------------------
\* One application of _coerce_json.  The texts are the concatenations of at
\* most MaxPieces pieces of model output (objects, other JSON values, loose
\* braces, commentary, whitespace) and the response texts of the loop.
\* ------------------------------------------------------------------------
COERCE_TEXTS ==
  Concats({ <<"{","Notes",":","ok","}">>,
            <<"{","Notes",":","{","}","}">>,
            <<"Notes",":","ok">>,
            <<"{">>, <<"}">>, <<",">>,
            <<" ">>, <<"\n">>,
            <<"x">>,
            <<"[","1","]">>,
            <<"5">>,
            <<"n","u","l","l">>,
            <<"ok">> }, MaxPieces) \cup RESPONSE_TEXTS \cup
  { <<"x"," ","{","Notes",":","{","}","}"," ","x">>,
    <<"{","Notes",":","ok","}"," ","x"," ","{","Notes",":","ok","}">>,
    <<"}"," ","{","Notes",":","ok","}"," ","{">>,
    <<" ","\n"," ">> }

InitCoerce ==
  /\ output_text \in COERCE_TEXTS
  /\ coerced = NoResult
  /\ LoopIdle
  /\ NormIdle
  /\ BatchIdle

\* coerced = _coerce_json(output_text)
Coerce ==
  /\ coerced = NoResult
  /\ coerced' = _coerce_json(output_text)
  /\ UNCHANGED <<output_text, loopVars, normVars, batchVars>>

SpecCoerce == InitCoerce /\ [][Coerce]_vars

\* ------------------------------------------------------------------------
\* tools/run_batch.py: process_directory_for_csv over the PDF files of a
\* directory tree.  A path is the sequence of its parts below root_path,
\* each part a lower-case letter; its name is its last part.
\* ------------------------------------------------------------------------
MaxPdfs == 3

CSV_FIELDS ==
  << "PDF_Filename", "Drawing_Number", "Revision",
     "Surface_Roughness_Standard", "Surface_Roughness_Parameter",
     "Surface_Roughness_Value", "Surface_Roughness_Unit",
     "Geometrical_Tolerancing_Standard", "Geometrical_Tolerancing_Scope",
     "Dimensional_Tolerancing_Standard", "Dimensional_Tolerancing_Scope",
     "Break_Sharp_Edges", "Retaining_Ring_Grooves_Sharp",
     "Welding_Notes", "Welding_Designation", "Weld_Finish", "Post_Treatment",
     "Material_Grade",
     "Tol_General_0-20", "Tol_General_20-200", "Tol_General_200-2000", "Tol_General_>2000",
     "Tol_Machining_0-20", "Tol_Machining_20-200", "Tol_Machining_200-2000",
     "Tol_Machining_>2000",
     "Tol_Welded_0-20", "Tol_Welded_20-200", "Tol_Welded_200-2000", "Tol_Welded_>2000",
     "Notes" >>

\* the order-ignoring listing: the files as the file system gave them
listed(paths) == paths

\* sorted(paths): Path objects compare as the tuples of their parts; the
\* sort is stable
sorted(paths) ==
  LET Code(c) == CHOOSE i \in DOMAIN LOWER : LOWER[i] = c
      Less(p, q) ==
        \E i \in 1..(Len(q)) :
          /\ \A j \in 1..(i - 1) : j <= Len(p) /\ p[j] = q[j]
          /\ i > Len(p) \/ Code(p[i]) < Code(q[i])
      RECURSIVE Insert(_, _)
      Insert(x, l) ==
        IF l = <<>> THEN <<x>>
        ELSE IF Less(x, Head(l)) THEN <<x>> \o l
        ELSE <<Head(l)>> \o Insert(x, Tail(l))
      RECURSIVE Sort(_)
      Sort(l) == IF l = <<>> THEN <<>>
                 ELSE Insert(l[Len(l)], Sort(SubSeq(l, 1, Len(l) - 1)))
  IN  Sort(paths)

\* process_single_pdf(pdf_path) for the text ocr_text that
\* extract_text_from_pdf_robust gives and the record "extracted" that
\* extract_fields_with_llm(ocr_text) returns: None or the record
process_single_pdf(ocr_text, extracted) ==
  IF IsBlank(ocr_text) THEN PyNone
  ELSE IF DOMAIN extracted = {}
          \/ \A k \in DOMAIN extracted \cap TargetKeySet :
               \/ IsNone(extracted[k])
               \/ (IsList(extracted[k]) \/ IsStr(extracted[k])) /\ ~Truthy(extracted[k])
       THEN PyNone
       ELSE PyDict(extracted)

\* prepare_csv_row(pdf_path, extracted_data): the row, or the exception of
\* " | ".join on a list with an item that is not a string, or of .get on a
\* bands value that is not a dict
prepare_csv_row(pdf_path, extracted_data) ==
  LET Empty == PyStr(<<>>)
      Or(v, w) == IF Truthy(v) THEN v ELSE w
      SUB == ("Surface_Roughness_Standard" :> <<"Surface_Roughness", "standard">>) @@
             ("Surface_Roughness_Parameter" :> <<"Surface_Roughness", "parameter">>) @@
             ("Surface_Roughness_Value" :> <<"Surface_Roughness", "value">>) @@
             ("Surface_Roughness_Unit" :> <<"Surface_Roughness", "unit">>) @@
             ("Geometrical_Tolerancing_Standard" :> <<"Geometrical_Tolerancing", "standard">>) @@
             ("Geometrical_Tolerancing_Scope" :> <<"Geometrical_Tolerancing", "scope">>) @@
             ("Dimensional_Tolerancing_Standard" :> <<"Dimensional_Tolerancing", "standard">>) @@
             ("Dimensional_Tolerancing_Scope" :> <<"Dimensional_Tolerancing", "scope">>)
      TOL == ("Tol_General_0-20" :> <<"Tolerances_General_Linear", "0-20">>) @@
             ("Tol_General_20-200" :> <<"Tolerances_General_Linear", "20-200">>) @@
             ("Tol_General_200-2000" :> <<"Tolerances_General_Linear", "200-2000">>) @@
             ("Tol_General_>2000" :> <<"Tolerances_General_Linear", ">2000">>) @@
             ("Tol_Machining_0-20" :> <<"Tolerances_Machining", "0-20">>) @@
             ("Tol_Machining_20-200" :> <<"Tolerances_Machining", "20-200">>) @@
             ("Tol_Machining_200-2000" :> <<"Tolerances_Machining", "200-2000">>) @@
             ("Tol_Machining_>2000" :> <<"Tolerances_Machining", ">2000">>) @@
             ("Tol_Welded_0-20" :> <<"Tolerances_Welded_Sheetmetal", "0-20">>) @@
             ("Tol_Welded_20-200" :> <<"Tolerances_Welded_Sheetmetal", "20-200">>) @@
             ("Tol_Welded_200-2000" :> <<"Tolerances_Welded_Sheetmetal", "200-2000">>) @@
             ("Tol_Welded_>2000" :> <<"Tolerances_Welded_Sheetmetal", ">2000">>)
      Sub(f) == LET o == Or(DictGet(extracted_data, SUB[f][1]), EmptyDict)
                IN  IF IsDict(o) THEN DictGetOr(o, SUB[f][2], Empty) ELSE Empty
      \* _bands(d, key)
      BandsOf(d) == Or(DictGet(d, "bands"), EmptyDict)
      _bands(d, key) ==
        IF ~IsDict(d) THEN Empty
        ELSE PyStr(ToStr(Or(DictGetOr(BandsOf(d), key, Empty), Empty)))
      RECURSIVE Join(_)
      Join(l) == IF l = <<>> THEN <<>>
                 ELSE IF Len(l) = 1 THEN l[1].s
                 ELSE l[1].s \o <<" ", "|", " ">> \o Join(Tail(l))
      Joined(k) == LET v == DictGetOr(extracted_data, k, PyList(<<>>))
                   IN  IF IsList(v) THEN PyStr(Join(v.l)) ELSE Or(v, Empty)
      JoinRaises(k) == LET v == DictGetOr(extracted_data, k, PyList(<<>>))
                       IN  IsList(v) /\ \E i \in DOMAIN v.l : ~IsStr(v.l[i])
      BandsRaise(k) == LET d == DictGet(extracted_data, k)
                       IN  IsDict(d) /\ ~IsDict(BandsOf(d))
      row == [f \in Range(CSV_FIELDS) |->
                CASE f = "PDF_Filename" -> PyStr(<<pdf_path[Len(pdf_path)]>>)
                  [] f \in {"Drawing_Number", "Revision"} -> DictGetOr(extracted_data, f, Empty)
                  [] f \in DOMAIN SUB -> Sub(f)
                  [] f \in {"Break_Sharp_Edges", "Retaining_Ring_Grooves_Sharp"} ->
                       PyStr(ToStr(PyBool(Truthy(DictGetOr(extracted_data, f, PyBool(FALSE))))))
                  [] f \in {"Welding_Notes", "Notes"} -> Joined(f)
                  [] f \in {"Welding_Designation", "Weld_Finish", "Post_Treatment",
                            "Material_Grade"} ->
                       Or(DictGetOr(extracted_data, f, Empty), Empty)
                  [] f \in DOMAIN TOL -> _bands(DictGet(extracted_data, TOL[f][1]), TOL[f][2])]
  IN  IF ~Truthy(extracted_data) THEN Returned([f \in Range(CSV_FIELDS) |-> Empty])
      ELSE IF JoinRaises("Welding_Notes") \/ JoinRaises("Notes") THEN Raised("TypeError")
      ELSE IF \E k \in Range(TABLE_KEYS) : BandsRaise(k) THEN Raised("AttributeError")
      ELSE Returned(row)

\* what one file gives: the text of extract_text_from_pdf_robust and the
\* record of extract_fields_with_llm for it (the empty record, or the
\* normalized record of an object the model answered)
PDF_OUTCOMES ==
  { [ocr_text |-> t, extracted |-> empty_result] : t \in {<<>>, <<" ", "\n">>, <<"x">>} }
  \cup { [ocr_text |-> <<"x">>, extracted |-> r.val] :
           r \in { _normalize(d, <<"x">>) :
                     d \in { EmptyDict,
                             PyDict(("Drawing_Number" :> PyStr(<<"5">>)) @@
                                    ("Notes" :> PyList(<<PyStr(<<"o","k">>), PyNum(5)>>))),
                             PyDict(("Welding_Notes" :> PyList(<<PyStr(<<"o","k">>)>>)) @@
                                    ("Tolerances_General_Linear" :> LEGACY_TABLE)) } } }

InitBatch ==
  /\ LET PATHS == { <<"b">>, <<"a", "b">>, <<"a", "c">>, <<"c", "a">> }
     IN  pdf_found \in { l \in UNION { [1..n -> PATHS] : n \in 0..MaxPdfs } :
                           \A i, j \in DOMAIN l : i # j => l[i] # l[j] }
  /\ pdf_files = <<>>
  /\ batch_pc = "scan"
  /\ pdf_index = 0
  /\ pdf_results = <<>>
  /\ csv_rows = <<>>
  /\ processed_count = 0
  /\ failed_count = 0
  /\ batch_report = PyNone
  /\ LoopIdle
  /\ NormIdle
  /\ CoerceIdle

\* pdf_files = sorted(...); return when there is none; else open the file,
\* writer.writeheader()
Scan ==
  /\ batch_pc = "scan"
  /\ pdf_files' = sorted(pdf_found)
  /\ IF pdf_found = <<>>
     THEN /\ batch_pc' = "done"
          /\ UNCHANGED <<csv_rows, pdf_index>>
     ELSE /\ csv_rows' = <<[f \in Range(CSV_FIELDS) |-> PyStr(<<f>>)]>>
          /\ pdf_index' = 1
          /\ batch_pc' = "loop"
  /\ UNCHANGED <<pdf_found, pdf_results, processed_count, failed_count, batch_report>>
  /\ UNCHANGED <<loopVars, normVars, coerceVars>>

\* one iteration of "for pdf_path in pdf_files"
ProcessPdf ==
  /\ batch_pc = "loop"
  /\ pdf_index <= Len(pdf_files)
  /\ \E o \in PDF_OUTCOMES :
       \E extracted_data \in {process_single_pdf(o.ocr_text, o.extracted)} :
         \E csv_row \in {prepare_csv_row(pdf_files[pdf_index], extracted_data)} :
           /\ pdf_results' = Append(pdf_results, extracted_data)
           /\ IF Truthy(extracted_data)
              THEN IF csv_row.exc # ""
                   THEN /\ batch_pc' = "raised"
                        /\ UNCHANGED <<csv_rows, processed_count, failed_count, pdf_index>>
                   ELSE /\ csv_rows' = Append(csv_rows, csv_row.val)
                        /\ processed_count' = processed_count + 1
                        /\ pdf_index' = pdf_index + 1
                        /\ UNCHANGED <<failed_count, batch_pc>>
              ELSE /\ failed_count' = failed_count + 1
                   /\ csv_rows' = Append(csv_rows,
                        [f \in Range(CSV_FIELDS) |->
                           IF f = "PDF_Filename"
                           THEN PyStr(<<pdf_files[pdf_index][Len(pdf_files[pdf_index])]>>)
                           ELSE PyStr(<<>>)])
                   /\ pdf_index' = pdf_index + 1
                   /\ UNCHANGED <<processed_count, batch_pc>>
  /\ UNCHANGED <<pdf_found, pdf_files, batch_report>>
  /\ UNCHANGED <<loopVars, normVars, coerceVars>>

\* after the loop: logger.success with the two counts and len(pdf_files)
Finish ==
  /\ batch_pc = "loop"
  /\ pdf_index > Len(pdf_files)
  /\ batch_report' = [processed |-> processed_count, failed |-> failed_count,
                      total |-> Len(pdf_files)]
  /\ batch_pc' = "done"
  /\ UNCHANGED <<pdf_found, pdf_files, pdf_index, pdf_results, csv_rows, processed_count,
                 failed_count>>
  /\ UNCHANGED <<loopVars, normVars, coerceVars>>

SpecBatch == InitBatch /\ [][Scan \/ ProcessPdf \/ Finish]_vars

\* ------------------------------------------------------------------------
\* Properties of extract_fields_with_llm (Spec, FairSpec)
\* ------------------------------------------------------------------------
CallIndexes == {i \in DOMAIN events : events[i].ev = "call"}
SleepIndexes == {i \in DOMAIN events : events[i].ev = "sleep"}
AllTransportErrors ==
  Len(outcomes) = MAX_ATTEMPTS /\ \A i \in DOMAIN outcomes : outcomes[i] = "transport"

\* C1 (retry exhaustion): when generate_content fails with a transport error
\* on all 3 attempts, the call returns the empty record after exactly 3 calls
\* and exactly 2 delays, each delay lying between two consecutive calls (none
\* after the final attempt).
C1_RetryExhaustion ==
  (pc = "done" /\ AllTransportErrors) =>
    /\ result = Returned(empty_result)
    /\ Cardinality(CallIndexes) = 3
    /\ Cardinality(SleepIndexes) = 2
    /\ \A i \in SleepIndexes :
         /\ i > 1 /\ events[i - 1].ev = "call"
         /\ i < Len(events) /\ events[i + 1].ev = "call"

\* what the call returned is the record of _normalize on the object coerced
\* from the last response text, or the empty record
ResultIsNormalizedOrEmpty ==
  /\ result.exc = ""
  /\ \/ result.val = empty_result
     \/ \E c \in {_coerce_json(response_text)} :
          /\ c.exc = ""
          /\ _normalize(c.val, truncated_text(document_text)) = Returned(result.val)

\* C2: whatever the model collaborator answers on each attempt, the call
\* ends, it never raises to its caller, and it returns either the record of
\* _normalize on a coerced object or the empty record.
C2_NeverRaises ==
  /\ [](pc = "done" => ResultIsNormalizedOrEmpty)
  /\ <>(pc = "done")

\* a transport error, then unparseable text, then a parseable object: the
\* third attempt returns its normalized record
C2_Witness ==
  /\ pc = "done"
  /\ outcomes = <<"transport", "ValueError", "ok">>
  /\ result.exc = ""
  /\ result.val # empty_result

\* C3 (uniform backoff): every attempt k+1 (k = 1, 2) is issued only after a
\* delay of k x 1.5 seconds that directly precedes it, whatever the kind of
\* failure of attempt k.
C3_UniformBackoff ==
  \A i \in CallIndexes :
    events[i].n > 1 =>
      /\ i > 1
      /\ events[i - 1] = [ev |-> "sleep", n |-> BACKOFF_TENTHS * (events[i].n - 1)]

\* ------------------------------------------------------------------------
\* Properties of _normalize (SpecNormalize)
\* ------------------------------------------------------------------------
\* _normalize(data, raw_text) has been called and returned a record
NormalizeReturned == phase \in {"normalized", "renormalized"} /\ normalized.exc = ""
\* the value the input object gives key k (None when absent)
Input(k) == DictGet(data, k)

\* C4 (schema completeness): the keys of the record _normalize returns are
\* exactly TARGET_KEYS, whatever keys the input object has or lacks.
C4_KeySet ==
  NormalizeReturned => DOMAIN normalized.val = TargetKeySet

\* an input with the unknown key Dimensions and without the key Notes
C4_Witness ==
  /\ NormalizeReturned
  /\ "Dimensions" \in DOMAIN data.d
  /\ "Notes" \notin DOMAIN data.d
  /\ "Dimensions" \notin DOMAIN normalized.val
  /\ "Notes" \in DOMAIN normalized.val

\* C5 (list shape): in the record _normalize returns, Notes and Welding_Notes
\* each hold a list, never null and never a scalar.
C5_NoteLists ==
  NormalizeReturned =>
    /\ IsList(normalized.val["Notes"])
    /\ IsList(normalized.val["Welding_Notes"])

\* C6 (idempotence): _normalize applied to its own output, with the same
\* text, returns that output unchanged.
C6_Idempotent ==
  phase = "renormalized" => renormalized = normalized

\* the input Post_Treatment is a string that matches the grade pattern
PostTreatmentIsGrade ==
  IsStr(Input("Post_Treatment")) /\ GradeMatches(Input("Post_Treatment").s)
\* Material_Grade as its own steps leave it (cleanup, form words, inference
\* from the text), before Post_Treatment is looked at
GradeBeforeSwap ==
  InferMaterialGrade(CleanMaterialGrade(CleanScalars(Project(data))), raw_text)["Material_Grade"]
\* the match of the grade pattern in the cleaned Post_Treatment
PostTreatmentMatch ==
  PyStr(GradeGroup(CleanScalars(Project(data))["Post_Treatment"].s))

\* C7 as stated: when Post_Treatment matches the grade pattern, the record has
\* Post_Treatment null and Material_Grade non-null, and a Material_Grade that
\* is already non-null when Post_Treatment is looked at is kept, not replaced
\* by the match.
C7_KeepsNonNullGrade ==
  (NormalizeReturned /\ PostTreatmentIsGrade) =>
    /\ IsNone(normalized.val["Post_Treatment"])
    /\ ~IsNone(normalized.val["Material_Grade"])
    /\ ~IsNone(GradeBeforeSwap) => normalized.val["Material_Grade"] = GradeBeforeSwap

\* C7 (mutual exclusion): when Post_Treatment matches the grade pattern, the
\* record has Post_Treatment null and Material_Grade non-null; a
\* Material_Grade that is truthy after its own steps is kept, and one that is
\* null or falsy by then (0, false, an empty list, a string of form words
\* only) is replaced by the matched part of Post_Treatment.
C7_MutualExclusion ==
  (NormalizeReturned /\ PostTreatmentIsGrade) =>
    /\ IsNone(normalized.val["Post_Treatment"])
    /\ ~IsNone(normalized.val["Material_Grade"])
    /\ normalized.val["Material_Grade"] =
         IF Truthy(GradeBeforeSwap) THEN GradeBeforeSwap ELSE PostTreatmentMatch

\* Material_Grade 0 with Post_Treatment "304": the grade becomes "304"
C7_Witness ==
  /\ NormalizeReturned
  /\ PostTreatmentIsGrade
  /\ Input("Material_Grade") = PyNum(0)
  /\ normalized.val["Material_Grade"] = PyStr(<<"3","0","4">>)
  /\ IsNone(normalized.val["Post_Treatment"])

\* the keyword phrases of each flag
FLAG_PHRASES ==
  [Break_Sharp_Edges |-> BREAK_EDGES_PHRASES,
   Retaining_Ring_Grooves_Sharp |-> GROOVES_SHARP_PHRASES]
\* the text contains, ignoring case, one of the phrases of flag k
TextHasPhrase(k) ==
  \E w \in FLAG_PHRASES[k] : \E i \in 1..Len(raw_text) : LitAt(raw_text, i, w, TRUE)

\* C8 (boolean enrichment): an explicit true or false of the input is kept
\* whatever the text says; a null or absent flag becomes true exactly when the
\* text contains, ignoring case, one of the flag's keyword phrases.
C8_BooleanEnrichment ==
  NormalizeReturned =>
    \A k \in DOMAIN FLAG_PHRASES :
      /\ Input(k).t = "bool" => normalized.val[k] = Input(k)
      /\ IsNone(Input(k)) => normalized.val[k] = PyBool(TextHasPhrase(k))

\* the text names both flags; Break_Sharp_Edges is absent and becomes true,
\* Retaining_Ring_Grooves_Sharp is an explicit false and stays false
C8_Witness ==
  /\ NormalizeReturned
  /\ "Break_Sharp_Edges" \notin DOMAIN data.d
  /\ Input("Retaining_Ring_Grooves_Sharp") = PyBool(FALSE)
  /\ \A k \in DOMAIN FLAG_PHRASES : TextHasPhrase(k)
  /\ normalized.val["Break_Sharp_Edges"] = PyBool(TRUE)
  /\ normalized.val["Retaining_Ring_Grooves_Sharp"] = PyBool(FALSE)

\* s contains a narrative keyword as a substring, ignoring case
ContainsKeyword(s) ==
  \E k \in DOMAIN WELD_KEYWORDS : \E i \in 1..Len(s) : LitAt(s, i, WELD_KEYWORDS[k], TRUE)
\* s contains a narrative keyword as a whole word: no letter, digit or
\* underscore directly before or after it
ContainsKeywordAsWord(s) ==
  \E k \in DOMAIN WELD_KEYWORDS : \E i \in 1..Len(s) :
    /\ LitAt(s, i, WELD_KEYWORDS[k], TRUE)
    /\ i = 1 \/ ~IsWord(s[i - 1])
    /\ i + Len(WELD_KEYWORDS[k]) > Len(s) \/ ~IsWord(s[i + Len(WELD_KEYWORDS[k])])
\* the designation is null and its whitespace-collapsed text is one of the
\* notes, which are pairwise different ignoring case
DesignationMovedToNotes ==
  LET notes == normalized.val["Welding_Notes"]
      moved == StrLower(Strip(CollapseWs(Input("Welding_Designation").s)))
  IN  /\ IsNone(normalized.val["Welding_Designation"])
      /\ IsList(notes)
      /\ \E i \in DOMAIN notes.l : IsStr(notes.l[i]) /\ StrLower(notes.l[i].s) = moved
      /\ \A i, j \in DOMAIN notes.l :
           i # j => StrLower(notes.l[i].s) # StrLower(notes.l[j].s)

\* C9 as stated: a Welding_Designation that contains one of the narrative
\* keywords is moved to Welding_Notes and the designation is null.
C9_AnyOccurrenceMoves ==
  (NormalizeReturned /\ IsStr(Input("Welding_Designation"))
     /\ ContainsKeyword(Input("Welding_Designation").s)) => DesignationMovedToNotes

\* C9 (welding reclassification): a Welding_Designation that contains one of
\* the narrative keywords as a whole word (ignoring case) is moved to
\* Welding_Notes, whitespace-collapsed and deduplicated ignoring case, and the
\* designation is null.
C9_Reclassification ==
  (NormalizeReturned /\ IsStr(Input("Welding_Designation"))
     /\ ContainsKeywordAsWord(Input("Welding_Designation").s)) => DesignationMovedToNotes

\* the designation "weld" joins the notes ["WELD", "x"], which already hold it
C9_Witness ==
  /\ NormalizeReturned
  /\ Input("Welding_Designation") = PyStr(<<"w","e","l","d">>)
  /\ Input("Welding_Notes") = PyList(<<PyStr(<<"W","E","L","D">>), PyStr(<<"x">>)>>)
  /\ normalized.val["Welding_Notes"] = Input("Welding_Notes")
  /\ IsNone(normalized.val["Welding_Designation"])

\* s holds a spelled-out plus-or-minus
HasPmVariant(s) ==
  \E i \in 1..Len(s) : LitAt(s, i, <<"+","/","-">>, FALSE) \/ LitAt(s, i, <<"+","-">>, FALSE)
\* s holds a comma between two digits
HasDecimalComma(s) ==
  \E i \in 2..(Len(s) - 1) : s[i] = "," /\ IsDigit(s[i - 1]) /\ IsDigit(s[i + 1])
\* s from position i on with every "+/-" and "+-" replaced by the glyph and
\* every comma between two digits replaced by a point
RECURSIVE CanonicalFrom(_, _)
CanonicalFrom(s, i) ==
  IF i > Len(s) THEN <<>>
  ELSE IF LitAt(s, i, <<"+","/","-">>, FALSE) THEN <<"PM">> \o CanonicalFrom(s, i + 3)
  ELSE IF LitAt(s, i, <<"+","-">>, FALSE) THEN <<"PM">> \o CanonicalFrom(s, i + 2)
  ELSE IF s[i] = "," /\ i > 1 /\ i < Len(s) /\ IsDigit(s[i - 1]) /\ IsDigit(s[i + 1])
       THEN <<".">> \o CanonicalFrom(s, i + 1)
  ELSE <<s[i]>> \o CanonicalFrom(s, i + 1)
\* the input has a table at key k with the string band b
InputHasBand(k, b) ==
  /\ IsDict(Input(k))
  /\ IsDict(DictGet(Input(k), "bands"))
  /\ b \in DOMAIN Input(k).d["bands"].d
  /\ IsStr(Input(k).d["bands"].d[b])

\* C10 (band format): every band value of the three tolerance tables of the
\* record is a string without "+/-" or "+-" and without a comma between
\* digits; it is the input band with each of these replaced by the glyph,
\* respectively by a point, and trimmed.
C10_BandFormat ==
  NormalizeReturned =>
    \A k \in Range(TABLE_KEYS) :
      IsDict(normalized.val[k]) =>
        \A b \in DOMAIN normalized.val[k].d["bands"].d :
          LET v == normalized.val[k].d["bands"].d[b]
          IN  /\ IsStr(v)
              /\ ~HasPmVariant(v.s)
              /\ ~HasDecimalComma(v.s)
              /\ InputHasBand(k, b) =>
                   v.s = Strip(CanonicalFrom(Input(k).d["bands"].d[b].s, 1))

\* the band "+/-0,2" of a table comes out as "PM" "0.2"
C10_Witness ==
  /\ NormalizeReturned
  /\ InputHasBand("Tolerances_General_Linear", "0-20")
  /\ Input("Tolerances_General_Linear").d["bands"].d["0-20"].s = <<"+","/","-","0",",","2">>
  /\ IsDict(normalized.val["Tolerances_General_Linear"])
  /\ normalized.val["Tolerances_General_Linear"].d["bands"].d["0-20"]
       = PyStr(<<"PM","0",".","2">>)

\* ------------------------------------------------------------------------
\* Properties of _normalize on values of the wrong shape (SpecNormalize)
\* ------------------------------------------------------------------------
\* C11: _normalize never raises: for every coerced object, whatever the
\* shape of the values in its fields, the call returns a record.
C11_NeverRaises == phase \in {"normalized", "renormalized"} => normalized.exc = ""

\* ------------------------------------------------------------------------
\* Properties of _coerce_json (SpecCoerce)
\* ------------------------------------------------------------------------
CoerceDone == coerced # NoResult

\* C12: for every text that is empty or whitespace-only after trimming,
\* _coerce_json fails with an error and returns no value.
C12_EmptyOutputFails == CoerceDone /\ Strip(output_text) = <<>> => coerced.exc # ""

\* C13: for every text, _coerce_json either returns a JSON object (never an
\* array, string, number, boolean or null) or fails with the malformed-output
\* error (ValueError in the code).
C13_ObjectOrMalformed ==
  CoerceDone => \/ coerced.exc = "" /\ IsDict(coerced.val)
                \/ coerced.exc = "ValueError"

IsValidJson(s) == json_loads(s).exc = ""
OpenBraces(s) == {i \in DOMAIN s : s[i] = "{"}
CloseBraces(s) == {i \in DOMAIN s : s[i] = "}"}
FirstOpenBrace(s) == CHOOSE i \in OpenBraces(s) : \A j \in OpenBraces(s) : i <= j
LastCloseBrace(s) == CHOOSE i \in CloseBraces(s) : \A j \in CloseBraces(s) : j <= i
HasCandidate(s) ==
  OpenBraces(s) # {} /\ CloseBraces(s) # {} /\ FirstOpenBrace(s) < LastCloseBrace(s)
Candidate(s) == SubSeq(s, FirstOpenBrace(s), LastCloseBrace(s))
FallbackTaken == CoerceDone /\ Strip(output_text) # <<>> /\ ~IsValidJson(Strip(output_text))

\* C14: when the whole text is not valid JSON, the only candidate is the
\* substring from the first "{" to the last "}"; if it parses, the parsed
\* object is returned (the commentary around it is ignored); if there is no
\* such block or it does not parse, _coerce_json fails with ValueError.
C14_CoercionFallback ==
  FallbackTaken =>
    IF HasCandidate(output_text) /\ IsValidJson(Candidate(output_text))
    THEN /\ coerced = Returned(json_loads(Candidate(output_text)).val)
         /\ IsDict(coerced.val)
    ELSE coerced = Raised("ValueError")

\* commentary on both sides of an object that itself holds an object
C14_Witness ==
  /\ FallbackTaken
  /\ HasCandidate(output_text)
  /\ FirstOpenBrace(output_text) > 1
  /\ LastCloseBrace(output_text) < Len(output_text)
  /\ Cardinality(CloseBraces(output_text)) > 1
  /\ coerced.exc = ""
  /\ IsDict(coerced.val)

\* ------------------------------------------------------------------------
\* Properties of the tolerance tables (SpecNormalize)
\* ------------------------------------------------------------------------
HasLegacyTable == "Tolerances_Table" \in DOMAIN data.d
\* the input without its key Tolerances_Table, and what _normalize makes of it
WithoutLegacyTable == PyDict([k \in DOMAIN data.d \ {"Tolerances_Table"} |-> data.d[k]])
\* the input with the legacy value in the place of Tolerances_General_Linear
LegacyAsGeneralLinear ==
  PyDict([k \in (DOMAIN data.d \ {"Tolerances_Table"}) \cup {"Tolerances_General_Linear"} |->
            IF k = "Tolerances_General_Linear" THEN data.d["Tolerances_Table"] ELSE data.d[k]])
TableOf(r, k) == r.val[k]
GeneralLinearUnchanged(base) ==
  TableOf(normalized, "Tolerances_General_Linear") = TableOf(base, "Tolerances_General_Linear")
OtherTablesUnchanged(base) ==
  \A k \in {"Tolerances_Machining", "Tolerances_Welded_Sheetmetal"} :
    TableOf(normalized, k) = TableOf(base, k)

\* C15: the legacy Tolerances_Table is adopted as Tolerances_General_Linear
\* only when that field is null after its own normalization; whenever the
\* input carries an object-shaped Tolerances_General_Linear the normalized
\* table is the same with and without Tolerances_Table; the other two tables
\* are the same with and without Tolerances_Table.
C15_LegacyNonDestructive ==
  NormalizeReturned /\ HasLegacyTable =>
    \A base \in {_normalize(WithoutLegacyTable, raw_text)} :
      base.exc = "" =>
        /\ ~GeneralLinearUnchanged(base) =>
             IsNone(TableOf(base, "Tolerances_General_Linear"))
        /\ IsDict(Input("Tolerances_General_Linear")) => GeneralLinearUnchanged(base)
        /\ OtherTablesUnchanged(base)

\* C15 (amended): the legacy table is adopted exactly when it is truthy and
\* the general-linear field is null without it; then the general-linear
\* table is what the legacy value gives in its place.  A non-empty object in
\* Tolerances_General_Linear gives the same table with and without
\* Tolerances_Table, and so do the other two tables.
C15_LegacyMigration ==
  NormalizeReturned /\ HasLegacyTable =>
    \A base \in {_normalize(WithoutLegacyTable, raw_text)} :
      base.exc = "" =>
        /\ IF Truthy(Input("Tolerances_Table"))
              /\ IsNone(TableOf(base, "Tolerances_General_Linear"))
           THEN normalized = _normalize(LegacyAsGeneralLinear, raw_text)
           ELSE GeneralLinearUnchanged(base)
        /\ IsDict(Input("Tolerances_General_Linear")) /\ Truthy(Input("Tolerances_General_Linear"))
             => GeneralLinearUnchanged(base)
        /\ OtherTablesUnchanged(base)

\* a non-empty general-linear table next to a legacy table that would give
\* another one
C15_Witness ==
  /\ NormalizeReturned
  /\ Truthy(Input("Tolerances_Table"))
  /\ IsDict(Input("Tolerances_General_Linear"))
  /\ Truthy(Input("Tolerances_General_Linear"))
  /\ IsDict(TableOf(normalized, "Tolerances_General_Linear"))
  /\ normalized # _normalize(LegacyAsGeneralLinear, raw_text)

\* ------------------------------------------------------------------------
\* More properties of extract_fields_with_llm (Spec)
\* ------------------------------------------------------------------------
ProfileFailed == profile_result.exc \notin {"", "pending"}
LoadProfileEvent == [ev |-> "load_profile", n |-> 0]

\* C16: an exception of load_profile does not end the extraction: the
\* profile block is empty, the retry loop is entered in the state it has
\* when the profile is empty (first attempt pending, no error, no result),
\* and the call ends only after at least one model call, with a record.
C16_ProfileFailureTolerated ==
  ProfileFailed =>
    /\ profile_block = <<>>
    /\ pc \in {"attempt", "backoff", "done"}
    /\ events # <<>> /\ events[1] = LoadProfileEvent
    /\ pc = "attempt" /\ attempt = 0 =>
         /\ events = <<LoadProfileEvent>>
         /\ outcomes = <<>>
         /\ last_err = PyNone
         /\ result = NoResult
    /\ pc = "done" => CallIndexes # {} /\ result.exc = ""

\* the profile loader raised and a later attempt still returned a record
C16_Witness ==
  /\ ProfileFailed
  /\ pc = "done"
  /\ outcomes # <<>> /\ outcomes[Len(outcomes)] = "ok"
  /\ result.exc = "" /\ result.val # empty_result

LastOutcome == outcomes[Len(outcomes)]
Succeeded == outcomes # <<>> /\ LastOutcome = "ok"

\* C17: the model is called at most 3 times, the calls being numbered
\* 1, 2, 3 in order; attempt k+1 is issued only after a failed attempt k, and
\* a run of a non-blank document ends only on a success or after attempt 3;
\* a successful attempt ends the run at once: its normalized record is the
\* result and the call of that attempt is the last event (no later call, no
\* later delay).
C17_BoundedRetry ==
  /\ Cardinality(CallIndexes) <= 3
  /\ Len(outcomes) = Cardinality(CallIndexes)
  /\ \A i \in CallIndexes : events[i].n = Cardinality({j \in CallIndexes : j <= i})
  /\ \A k \in DOMAIN outcomes : k < Len(outcomes) => outcomes[k] # "ok"
  /\ pc = "done" /\ ~IsBlank(document_text) => Succeeded \/ Len(outcomes) = 3
  /\ Succeeded =>
       /\ pc = "done"
       /\ events[Len(events)] = [ev |-> "call", n |-> Len(outcomes)]
       /\ \E b \in {CoerceAndNormalize(response_text, document_text)} :
            b.how = "return" /\ result = Returned(b.val)

\* two failed attempts of different kinds, then a success on the third
C17_Witness ==
  /\ Succeeded
  /\ Len(outcomes) = 3
  /\ outcomes[1] = "blocked"
  /\ outcomes[2] \in {"ValueError", "AttributeError", "TypeError"}
  /\ result.exc = ""

\* ------------------------------------------------------------------------
\* More properties of the tolerance tables (SpecNormalize)
\* ------------------------------------------------------------------------
\* the table is an object without a band: bands missing, an empty object, or
\* an object none of whose values is a string
TableWithoutBand(t) ==
  /\ IsDict(t)
  /\ \/ "bands" \notin DOMAIN t.d
     \/ /\ IsDict(t.d["bands"])
        /\ \A b \in DOMAIN t.d["bands"].d : ~IsStr(t.d["bands"].d[b])

\* C18: for each of the three table fields, an input table that is an object
\* without a band gives a null field in the record _normalize returns, not
\* an object with an empty bands mapping.
C18_EmptyTableDropped ==
  NormalizeReturned =>
    \A k \in Range(TABLE_KEYS) :
      TableWithoutBand(Input(k)) /\ ~Truthy(Input("Tolerances_Table"))
        => IsNone(normalized.val[k])

\* ------------------------------------------------------------------------
\* Properties of the end of extract_fields_with_llm (Spec)
\* ------------------------------------------------------------------------
AllAttemptsFailed ==
  pc = "done" /\ Len(outcomes) = MAX_ATTEMPTS /\ LastOutcome # "ok"

\* C19: whenever all 3 attempts fail, the last error given to the logger at
\* exhaustion is not null and is the error of the third attempt, whatever
\* the kind of failure (soft-blocked and empty-text responses included).
C19_TerminalFailureReport ==
  AllAttemptsFailed =>
    /\ logged_err # PyNone
    /\ logged_err.n = MAX_ATTEMPTS

\* C20: when the document text is empty or whitespace-only, the call loads
\* no profile, issues no model call and no delay, and returns the default
\* empty record.
C20_BlankInputShortCircuit ==
  Strip(document_text) = <<>> =>
    /\ events = <<>>
    /\ outcomes = <<>>
    /\ profile_result = NoResult
    /\ pc \in {"start", "done"}
    /\ pc = "done" => result = Returned(empty_result)

\* a whitespace-only document for which the call has returned
C20_Witness ==
  /\ document_text # <<>>
  /\ Strip(document_text) = <<>>
  /\ pc = "done"
  /\ result = Returned(empty_result)
  /\ events = <<>>

\* ------------------------------------------------------------------------
\* Properties of process_directory_for_csv (SpecBatch)
\* ------------------------------------------------------------------------
PartCode(c) == CHOOSE i \in DOMAIN LOWER : LOWER[i] = c
\* p comes before q in path order: part by part, a proper prefix first
RECURSIVE PathBefore(_, _)
PathBefore(p, q) ==
  IF q = <<>> THEN FALSE
  ELSE IF p = <<>> THEN TRUE
  ELSE IF Head(p) = Head(q) THEN PathBefore(Tail(p), Tail(q))
  ELSE PartCode(Head(p)) < PartCode(Head(q))

\* the rows after the header
DataRows == IF csv_rows = <<>> THEN <<>> ELSE Tail(csv_rows)
FileName(p) == PyStr(<<p[Len(p)]>>)
FailureRow(p) ==
  [f \in Range(CSV_FIELDS) |-> IF f = "PDF_Filename" THEN FileName(p) ELSE PyStr(<<>>)]
Succeeded21(i) == Truthy(pdf_results[i])

\* C21: the files are handled in sorted path order, each exactly once; the
\* i-th data row belongs to the i-th file: the populated row of its record
\* when process_single_pdf gave one, and else a row that is empty except for
\* PDF_Filename; no iteration raises; processed_count and failed_count count
\* the two kinds of rows, and at the end their sum, the number of data rows
\* and the number of PDFs found are equal.
C21_BatchAccounting ==
  /\ batch_pc # "raised"
  /\ batch_pc \in {"loop", "done"} =>
       /\ Len(pdf_files) = Len(pdf_found)
       /\ Range(pdf_files) = Range(pdf_found)
       /\ \A i, j \in DOMAIN pdf_files : i < j => PathBefore(pdf_files[i], pdf_files[j])
       /\ Len(DataRows) = Len(pdf_results)
       /\ Len(DataRows) <= Len(pdf_files)
       /\ \A i \in DOMAIN DataRows :
            /\ DOMAIN DataRows[i] = Range(CSV_FIELDS)
            /\ DataRows[i]["PDF_Filename"] = FileName(pdf_files[i])
            /\ IF Succeeded21(i)
               THEN /\ DataRows[i] = prepare_csv_row(pdf_files[i], pdf_results[i]).val
                    /\ DataRows[i] # FailureRow(pdf_files[i])
               ELSE DataRows[i] = FailureRow(pdf_files[i])
       /\ processed_count = Cardinality({i \in DOMAIN pdf_results : Succeeded21(i)})
       /\ failed_count = Cardinality({i \in DOMAIN pdf_results : ~Succeeded21(i)})
       /\ processed_count + failed_count = Len(DataRows)
  /\ batch_pc = "done" =>
       /\ Len(DataRows) = Len(pdf_found)
       /\ processed_count + failed_count = Len(pdf_found)
       /\ pdf_found # <<>> =>
            batch_report = [processed |-> processed_count, failed |-> failed_count,
                            total |-> Len(pdf_found)]

\* three files found out of order, two of them with the same name, the
\* first one (in sorted order) failing and a later one succeeding
C21_Witness ==
  /\ batch_pc = "done"
  /\ Len(pdf_found) = 3
  /\ pdf_found # pdf_files
  /\ \E i, j \in DOMAIN pdf_files : i # j /\ FileName(pdf_files[i]) = FileName(pdf_files[j])
  /\ ~Succeeded21(1)
  /\ Succeeded21(2)
  /\ ~Succeeded21(3)
  /\ Len(DataRows) = 3

====
